---- MODULE Spec2Model ----
(***************************************************************************)
(* A model of the physics-lab simulation engine (workers/physics) and of   *)
(* the worker that schedules it.                                           *)
(*                                                                         *)
(* Numbers.  A JavaScript number is modelled as a pair <<n, d>>:           *)
(*   d > 0   the finite value n/d, kept in lowest terms;                   *)
(*   d = 0   a non-finite value: <<1,0>> is Infinity, <<-1,0>> is          *)
(*           -Infinity and <<0,0>> is NaN;                                 *)
(*   d < 0   <<0,-1>> is null, which only JSON.parse produces.             *)
(* Finite arithmetic is exact (the rounding of IEEE doubles and the sign   *)
(* of zero are not modelled); the non-finite cases follow IEEE 754.        *)
(*                                                                         *)
(* Storage.  The objects that more than one holder can reach (state        *)
(* objects, the springs array, the forces object) live in `heap` and are   *)
(* held by address, so that sharing and copying are different things.      *)
(***************************************************************************)
EXTENDS Integers, Sequences, FiniteSets, TLC

VARIABLES
    config,     \* the caller's SimulationConfig object
    heap,       \* address -> object (state objects, springs arrays, forces objects)
    engine,     \* the PhysicsEngine object (the worker's `engine` variable)
    snaps,      \* addresses of the values getState() returned to the caller
    calls,      \* what the caller has done so far: counters and the last call
    running,    \* worker: let running
    tickHandle, \* worker: let tickHandle (0 is null)
    timers,     \* the interval timers that are active in the worker's event loop
    snapshotIntervalMs, \* worker: let snapshotIntervalMs
    lastSnapshotTime,   \* worker: let lastSnapshotTime
    now,        \* performance.now(), in milliseconds
    posted      \* the messages the worker has posted, each with the time it was posted

vars == <<config, heap, engine, snaps, calls, running, tickHandle, timers,
          snapshotIntervalMs, lastSnapshotTime, now, posted>>

----------------------------------------------------------------------------
(* Numbers *)

Abs(i) == IF i < 0 THEN -i ELSE i

RECURSIVE Gcd(_, _)
Gcd(a, b) == IF b = 0 THEN a ELSE Gcd(b, a % b)

\* The finite number n/d (d # 0) in lowest terms with a positive denominator.
Rat(n, d) ==
    LET g == Gcd(Abs(n), Abs(d))
        s == IF d < 0 THEN -1 ELSE 1
    IN  <<s * (n \div g), s * (d \div g)>>

Int2Num(i) == <<i, 1>>
Zero == <<0, 1>>
One == <<1, 1>>
Two == <<2, 1>>
Half == <<1, 2>>
NaN == <<0, 0>>
PosInf == <<1, 0>>
NegInf == <<-1, 0>>
Null == <<0, -1>>

IsFinite(x) == x[2] > 0
IsNaN(x) == x = NaN
Sign(x) == IF x[1] > 0 THEN 1 ELSE IF x[1] < 0 THEN -1 ELSE 0

\* a + b
NumAdd(a, b) ==
    IF IsFinite(a) /\ IsFinite(b)
    THEN LET g == Gcd(a[2], b[2])
         IN  Rat(a[1] * (b[2] \div g) + b[1] * (a[2] \div g), a[2] * (b[2] \div g))
    ELSE IF IsNaN(a) \/ IsNaN(b) THEN NaN
    ELSE IF ~IsFinite(a) /\ ~IsFinite(b) THEN (IF a = b THEN a ELSE NaN)
    ELSE IF ~IsFinite(a) THEN a ELSE b

\* -a
NumNeg(a) == <<-a[1], a[2]>>

\* a - b
NumSub(a, b) == NumAdd(a, NumNeg(b))

\* a * b
NumMul(a, b) ==
    IF IsFinite(a) /\ IsFinite(b)
    THEN IF a[1] = 0 \/ b[1] = 0 THEN Zero
         ELSE LET g1 == Gcd(Abs(a[1]), b[2])
                  g2 == Gcd(Abs(b[1]), a[2])
              IN  <<(a[1] \div g1) * (b[1] \div g2), (a[2] \div g2) * (b[2] \div g1)>>
    ELSE IF IsNaN(a) \/ IsNaN(b) \/ Sign(a) = 0 \/ Sign(b) = 0 THEN NaN
    ELSE <<Sign(a) * Sign(b), 0>>

\* a / b
NumDiv(a, b) ==
    IF IsNaN(a) \/ IsNaN(b) THEN NaN
    ELSE IF ~IsFinite(b) THEN (IF IsFinite(a) THEN Zero ELSE NaN)
    ELSE IF ~IsFinite(a) THEN <<Sign(a) * (IF b[1] < 0 THEN -1 ELSE 1), 0>>
    ELSE IF b[1] = 0 THEN <<Sign(a), 0>>
    ELSE NumMul(a, Rat(b[2], b[1]))

\* a > 0, a <= 0, a === 0 (every comparison with NaN is false)
NumPositive(a) == a[2] >= 0 /\ a[1] > 0
NumNonPositive(a) == (IsFinite(a) /\ a[1] <= 0) \/ a = NegInf
NumIsZero(a) == IsFinite(a) /\ a[1] = 0

\* The largest r in lo..hi with r * r <= n (lo * lo <= n).
RECURSIVE IsqrtIn(_, _, _)
IsqrtIn(n, lo, hi) ==
    IF lo >= hi THEN lo
    ELSE LET mid == (lo + hi + 1) \div 2
         IN  IF mid * mid <= n THEN IsqrtIn(n, mid, hi) ELSE IsqrtIn(n, lo, mid - 1)

\* The integer square root; 46340 is the largest root of a 32-bit integer.
Isqrt(n) == IsqrtIn(n, 0, IF n < 46340 THEN n ELSE 46340)

\* Math.sqrt: exact where the root is rational, else rounded down to a
\* multiple of 1/SqrtScale.
SqrtScale == 64
NumSqrt(a) ==
    IF IsNaN(a) \/ a[1] < 0 THEN NaN
    ELSE IF ~IsFinite(a) THEN PosInf
    ELSE LET rn == Isqrt(a[1])
             rd == Isqrt(a[2])
         IN  IF rn * rn = a[1] /\ rd * rd = a[2] THEN <<rn, rd>>
             ELSE Rat(Isqrt((a[1] * SqrtScale * SqrtScale) \div a[2]), SqrtScale)

----------------------------------------------------------------------------
(* Optional values: << >> is undefined, <<v>> is v. *)

None == << >>
Some(v) == <<v>>
IsSome(o) == Len(o) = 1
OrElse(o, v) == IF IsSome(o) THEN o[1] ELSE v

\* s.map(f) is written Eager([i \in Indices(s) |-> f(s[i])]) throughout: Eager
\* makes the new array a tuple of values, computed once when it is built.
Indices(s) == 1..Len(s)
Eager(f) == f \o << >>

----------------------------------------------------------------------------
(* types.ts: vector and quaternion helpers *)

ZeroVec == <<Zero, Zero, Zero>>

vecAdd(a, b) == <<NumAdd(a[1], b[1]), NumAdd(a[2], b[2]), NumAdd(a[3], b[3])>>

vecSub(a, b) == <<NumSub(a[1], b[1]), NumSub(a[2], b[2]), NumSub(a[3], b[3])>>

vecScale(a, s) == <<NumMul(a[1], s), NumMul(a[2], s), NumMul(a[3], s)>>

vecDot(a, b) ==
    NumAdd(NumAdd(NumMul(a[1], b[1]), NumMul(a[2], b[2])), NumMul(a[3], b[3]))

NumAbs(a) == <<Abs(a[1]), a[2]>>

\* Math.sqrt(vecDot(a, a)).  A vector along one axis has length |x|, which is
\* what sqrt(x * x) is; it is taken directly so that x * x is never formed.
vecLength(a) ==
    IF NumIsZero(a[2]) /\ NumIsZero(a[3]) /\ IsFinite(a[1]) THEN NumAbs(a[1])
    ELSE IF NumIsZero(a[1]) /\ NumIsZero(a[3]) /\ IsFinite(a[2]) THEN NumAbs(a[2])
    ELSE IF NumIsZero(a[1]) /\ NumIsZero(a[2]) /\ IsFinite(a[3]) THEN NumAbs(a[3])
    ELSE NumSqrt(vecDot(a, a))

\* vecNormalize once len is known
vecDivide(a, len) == IF NumIsZero(len) THEN ZeroVec ELSE vecScale(a, NumDiv(One, len))

vecNormalize(a) == vecDivide(a, vecLength(a))

quatMultiply(a, b) ==
    LET ax == a[1]  ay == a[2]  az == a[3]  aw == a[4]
        bx == b[1]  by == b[2]  bz == b[3]  bw == b[4]
        M(x, y) == NumMul(x, y)
    IN  << NumSub(NumAdd(NumAdd(M(aw, bx), M(ax, bw)), M(ay, bz)), M(az, by)),
           NumAdd(NumAdd(NumSub(M(aw, by), M(ax, bz)), M(ay, bw)), M(az, bx)),
           NumAdd(NumSub(NumAdd(M(aw, bz), M(ax, by)), M(ay, bx)), M(az, bw)),
           NumSub(NumSub(NumSub(M(aw, bw), M(ax, bx)), M(ay, by)), M(az, bz)) >>

\* Math.hypot(q[0], q[1], q[2], q[3])
Hypot4(q) ==
    NumSqrt(NumAdd(NumAdd(NumAdd(NumMul(q[1], q[1]), NumMul(q[2], q[2])),
                          NumMul(q[3], q[3])), NumMul(q[4], q[4])))

IdentityQuat == <<Zero, Zero, Zero, One>>

\* quatNormalize once len is known
quatDivide(q, len) ==
    IF NumIsZero(len) THEN IdentityQuat
    ELSE <<NumDiv(q[1], len), NumDiv(q[2], len), NumDiv(q[3], len), NumDiv(q[4], len)>>

quatNormalize(q) == quatDivide(q, Hypot4(q))

quatFromAngularVelocity(omega) == <<omega[1], omega[2], omega[3], Zero>>

----------------------------------------------------------------------------
(* forces.ts *)

DefaultGravityDirection == <<Zero, NumNeg(One), Zero>>

\* config is an optional GravityForceConfig
gravityAcceleration(mass, position, velocity, gravityConfig) ==
    IF ~IsSome(gravityConfig) THEN ZeroVec
    ELSE vecScale(OrElse(gravityConfig[1].direction, DefaultGravityDirection),
                  gravityConfig[1].g)

\* config is an optional LinearDragForceConfig
linearDragAcceleration(mass, position, velocity, dragConfig) ==
    IF ~IsSome(dragConfig) THEN ZeroVec
    ELSE IF NumNonPositive(mass) THEN ZeroVec
    ELSE vecScale(velocity, NumDiv(NumNeg(dragConfig[1].coefficient), mass))

\* forces is an optional ForcesConfig (forces?.gravity, forces?.linearDrag)
GravityOf(forces) == IF IsSome(forces) THEN forces[1].gravity ELSE None
LinearDragOf(forces) == IF IsSome(forces) THEN forces[1].linearDrag ELSE None

sumAccelerationsForPointMass(point, forces) ==
    vecAdd(gravityAcceleration(point.mass, point.position, point.velocity, GravityOf(forces)),
           linearDragAcceleration(point.mass, point.position, point.velocity,
                                  LinearDragOf(forces)))

----------------------------------------------------------------------------
(* engine.ts: the derivative evaluator that step() builds.  ctx holds what  *)
(* the closure reads from the engine: forces, springs, pointMassIndexById   *)
(* and dt.                                                                  *)

\* The body of `for (const spring of this.springs)`, from `const delta` on.
\* Each value the loop body names is a parameter of the operator that uses it.

\* direction
springDirection(delta, distance) ==
    IF NumPositive(distance) THEN vecScale(delta, NumDiv(One, distance)) ELSE ZeroVec

\* dampingAlong
springDampingAlong(spring, relativeVel, direction) ==
    NumMul(OrElse(spring.damping, Zero),
           NumAdd(NumAdd(NumMul(relativeVel[1], direction[1]),
                         NumMul(relativeVel[2], direction[2])),
                  NumMul(relativeVel[3], direction[3])))

\* forceMagnitude, with extension = distance - spring.restLength
springForceMagnitude(spring, distance, dampingAlong) ==
    NumSub(NumMul(NumNeg(spring.stiffness), NumSub(distance, spring.restLength)),
           dampingAlong)

springForceAlong(a, b, spring, distance, direction) ==
    vecScale(direction,
             springForceMagnitude(spring, distance,
                                  springDampingAlong(spring, vecSub(b.velocity, a.velocity),
                                                     direction)))

springForceAt(a, b, spring, delta, distance) ==
    springForceAlong(a, b, spring, distance, springDirection(delta, distance))

springForceOver(a, b, spring, delta) ==
    springForceAt(a, b, spring, delta, vecLength(delta))

\* forceVec for the spring between the point masses a and b
springForceVec(a, b, spring) ==
    springForceOver(a, b, spring, vecSub(b.position, a.position))

\* applySpringForce adding the force to both ends with the same sign
applySpringForceSameSign(acc, ia, ib, a, b, forceVec) ==
    [ [acc EXCEPT ![ia] = vecAdd(@, vecScale(forceVec, NumDiv(One, a.mass)))]
        EXCEPT ![ib] = vecAdd(@, vecScale(forceVec, NumDiv(One, b.mass))) ]

\* Apply equal and opposite forces: acc[ia] += forceVec / a.mass, then
\* acc[ib] += -forceVec / b.mass.
applySpringForce(acc, ia, ib, a, b, forceVec) ==
    [ [acc EXCEPT ![ia] = vecAdd(@, vecScale(forceVec, NumDiv(One, a.mass)))]
        EXCEPT ![ib] = vecAdd(@, vecScale(vecScale(forceVec, NumNeg(One)),
                                          NumDiv(One, b.mass))) ]

springBetween(st, acc, spring, ia, ib) ==
    applySpringForce(acc, ia, ib, st.pointMasses[ia], st.pointMasses[ib],
                     springForceVec(st.pointMasses[ia], st.pointMasses[ib], spring))

\* springContribution taking index 0 (the first point mass) for an id that is
\* not in the map
springContributionFirst(ctx, st, acc, spring) ==
    springBetween(st, acc, spring,
                  IF spring.aId \in DOMAIN ctx.index THEN ctx.index[spring.aId] ELSE 1,
                  IF spring.bId \in DOMAIN ctx.index THEN ctx.index[spring.bId] ELSE 1)

\* One pass of the body of `for (const spring of this.springs)` over acc.
springContribution(ctx, st, acc, spring) ==
    IF spring.aId \notin DOMAIN ctx.index \/ spring.bId \notin DOMAIN ctx.index THEN acc
    ELSE springBetween(st, acc, spring, ctx.index[spring.aId], ctx.index[spring.bId])

RECURSIVE springLoop(_, _, _, _)
springLoop(ctx, st, acc, k) ==
    IF k > Len(ctx.springs) THEN acc
    ELSE springLoop(ctx, st, springContribution(ctx, st, acc, ctx.springs[k]), k + 1)

rigidLinearAcceleration(ctx, rb) ==
    LET gAcc == IF IsSome(GravityOf(ctx.forces))
                THEN vecScale(OrElse(GravityOf(ctx.forces)[1].direction,
                                     DefaultGravityDirection),
                              GravityOf(ctx.forces)[1].g)
                ELSE ZeroVec
        dragAcc == IF IsSome(LinearDragOf(ctx.forces))
                   THEN vecScale(rb.velocity,
                                 NumDiv(NumNeg(LinearDragOf(ctx.forces)[1].coefficient),
                                        rb.mass))
                   ELSE ZeroVec
    IN  vecAdd(gAcc, dragAcc)

\* computeDerivative giving each rigid body its linear acceleration as its
\* angular acceleration too
computeDerivativeTorque(ctx, st) ==
    [ pointAccelerations |->
          springLoop(ctx, st,
                     Eager([i \in Indices(st.pointMasses) |->
                          sumAccelerationsForPointMass(st.pointMasses[i], ctx.forces)]),
                     1),
      rigidLinearAccelerations |->
          Eager([i \in Indices(st.rigidBodies) |-> rigidLinearAcceleration(ctx, st.rigidBodies[i])]),
      rigidAngularAccelerations |->
          Eager([i \in Indices(st.rigidBodies) |-> rigidLinearAcceleration(ctx, st.rigidBodies[i])]) ]

computeDerivative(ctx, st) ==
    [ pointAccelerations |->
          springLoop(ctx, st,
                     Eager([i \in Indices(st.pointMasses) |->
                          sumAccelerationsForPointMass(st.pointMasses[i], ctx.forces)]),
                     1),
      rigidLinearAccelerations |->
          Eager([i \in Indices(st.rigidBodies) |-> rigidLinearAcceleration(ctx, st.rigidBodies[i])]),
      rigidAngularAccelerations |->
          Eager([i \in Indices(st.rigidBodies) |-> ZeroVec]) ]


---------------------------------------------------------------------------------------------------------------------------------------------------
(* integrators.ts.  A value the source names and then uses more than once   *)
(* (the derivative, next, the new velocity) is a parameter of the operator  *)
(* that uses it.                                                            *)

\* qNext = orientation + dq, componentwise
quatAddTo(orientation, dq) ==
    << NumAdd(orientation[1], dq[1]), NumAdd(orientation[2], dq[2]),
       NumAdd(orientation[3], dq[3]), NumAdd(orientation[4], dq[4]) >>

\* advanceOrientation returning qNext as it is, not normalized
advanceOrientationRaw(orientation, angularVelocity, dt) ==
    quatAddTo(orientation,
              quatMultiply(quatFromAngularVelocity(
                               << NumMul(NumMul(angularVelocity[1], Half), dt),
                                  NumMul(NumMul(angularVelocity[2], Half), dt),
                                  NumMul(NumMul(angularVelocity[3], Half), dt) >>),
                           orientation))

advanceOrientation(orientation, angularVelocity, dt) ==
    quatNormalize(
        quatAddTo(orientation,
                  quatMultiply(quatFromAngularVelocity(
                                   << NumMul(NumMul(angularVelocity[1], Half), dt),
                                      NumMul(NumMul(angularVelocity[2], Half), dt),
                                      NumMul(NumMul(angularVelocity[3], Half), dt) >>),
                               orientation)))

\* cloneState with the point masses in reverse order
cloneStateReversed(state) ==
    [ time |-> state.time,
      stepIndex |-> state.stepIndex,
      pointMasses |->
          Eager([i \in Indices(state.pointMasses) |->
               state.pointMasses[Len(state.pointMasses) + 1 - i]]),
      rigidBodies |-> state.rigidBodies ]

\* A new state object with new body objects and new arrays, field by field.
cloneState(state) ==
    [ time |-> state.time,
      stepIndex |-> state.stepIndex,
      pointMasses |->
          Eager([i \in Indices(state.pointMasses) |->
               [ id |-> state.pointMasses[i].id,
                 mass |-> state.pointMasses[i].mass,
                 position |-> state.pointMasses[i].position,
                 velocity |-> state.pointMasses[i].velocity ]]),
      rigidBodies |->
          Eager([i \in Indices(state.rigidBodies) |->
               [ id |-> state.rigidBodies[i].id,
                 mass |-> state.rigidBodies[i].mass,
                 size |-> state.rigidBodies[i].size,
                 position |-> state.rigidBodies[i].position,
                 velocity |-> state.rigidBodies[i].velocity,
                 orientation |-> state.rigidBodies[i].orientation,
                 angularVelocity |-> state.rigidBodies[i].angularVelocity ]]) ]

\* advanceClock with the stepIndex line left out
advanceClockTimeOnly(next, dt) == [next EXCEPT !.time = NumAdd(next.time, dt)]

\* next.time += dt; next.stepIndex += 1
advanceClock(next, dt) ==
    [next EXCEPT !.time = NumAdd(next.time, dt), !.stepIndex = NumAdd(next.stepIndex, One)]

\* r.angularVelocity = w; r.orientation = advanceOrientation(r.orientation, w, h)
setAngular(r, w, h) ==
    [r EXCEPT !.angularVelocity = w, !.orientation = advanceOrientation(r.orientation, w, h)]

\* r.angularVelocity += aA * h, then the orientation advanced with the new value
advanceAngular(r, aA, h) == setAngular(r, vecAdd(r.angularVelocity, vecScale(aA, h)), h)

\* position += velocity * h with the velocity as it was, then velocity += a * h
positionThenVelocity(body, a, h) ==
    [body EXCEPT !.position = vecAdd(body.position, vecScale(body.velocity, h)),
                 !.velocity = vecAdd(body.velocity, vecScale(a, h))]

\* velocity = v, then position += v * h with that new velocity
setVelocityThenPosition(body, v, h) ==
    [body EXCEPT !.velocity = v, !.position = vecAdd(body.position, vecScale(v, h))]

\* The loops of integrateEuler over next, a clone of the current state.
eulerLoops(next, derivative, dt) ==
    [next EXCEPT
        !.pointMasses =
            Eager([i \in Indices(next.pointMasses) |->
                positionThenVelocity(next.pointMasses[i],
                                     derivative.pointAccelerations[i], dt)]),
        !.rigidBodies =
            Eager([i \in Indices(next.rigidBodies) |->
                advanceAngular(positionThenVelocity(next.rigidBodies[i],
                                                    derivative.rigidLinearAccelerations[i],
                                                    dt),
                               derivative.rigidAngularAccelerations[i], dt)])]

integrateEuler(ctx, current) ==
    eulerLoops(advanceClock(cloneState(current), ctx.dt),
               computeDerivative(ctx, current), ctx.dt)

\* The loops of integrateSemiImplicitEuler over next.
semiLoops(next, derivative, dt) ==
    [next EXCEPT
        !.pointMasses =
            Eager([i \in Indices(next.pointMasses) |->
                setVelocityThenPosition(
                    next.pointMasses[i],
                    vecAdd(next.pointMasses[i].velocity,
                           vecScale(derivative.pointAccelerations[i], dt)),
                    dt)]),
        !.rigidBodies =
            Eager([i \in Indices(next.rigidBodies) |->
                advanceAngular(
                    setVelocityThenPosition(
                        next.rigidBodies[i],
                        vecAdd(next.rigidBodies[i].velocity,
                               vecScale(derivative.rigidLinearAccelerations[i], dt)),
                        dt),
                    derivative.rigidAngularAccelerations[i], dt)])]

\* integrateSemiImplicitEuler with the two lines of each loop in the order of
\* the explicit integrator
integrateSemiPositionFirst(ctx, current) ==
    eulerLoops(advanceClock(cloneState(current), ctx.dt),
               computeDerivative(ctx, current), ctx.dt)

integrateSemiImplicitEuler(ctx, current) ==
    semiLoops(advanceClock(cloneState(current), ctx.dt),
              computeDerivative(ctx, current), ctx.dt)

\* The intermediate state s2, s3 or s4: a clone of current whose bodies are
\* advanced by h with the accelerations k, the position with the velocity as
\* it was.  time and stepIndex stay those of current.
rk4Stage(current, k, h) == eulerLoops(cloneState(current), k, h)

\* [k1 + 2 * k2 + 2 * k3 + k4] componentwise
rk4Sum(k1, k2, k3, k4) ==
    << NumAdd(NumAdd(NumAdd(k1[1], NumMul(Two, k2[1])), NumMul(Two, k3[1])), k4[1]),
       NumAdd(NumAdd(NumAdd(k1[2], NumMul(Two, k2[2])), NumMul(Two, k3[2])), k4[2]),
       NumAdd(NumAdd(NumAdd(k1[3], NumMul(Two, k2[3])), NumMul(Two, k3[3])), k4[3]) >>

Six == <<6, 1>>

\* The last loops of integrateRK4 over next.
rk4Loops(next, k1, k2, k3, k4, dt) ==
    [next EXCEPT
        !.pointMasses =
            Eager([i \in Indices(next.pointMasses) |->
                setVelocityThenPosition(
                    next.pointMasses[i],
                    vecAdd(next.pointMasses[i].velocity,
                           vecScale(rk4Sum(k1.pointAccelerations[i],
                                           k2.pointAccelerations[i],
                                           k3.pointAccelerations[i],
                                           k4.pointAccelerations[i]),
                                    NumDiv(dt, Six))),
                    dt)]),
        !.rigidBodies =
            Eager([i \in Indices(next.rigidBodies) |->
                setAngular(
                    setVelocityThenPosition(
                        next.rigidBodies[i],
                        vecAdd(next.rigidBodies[i].velocity,
                               vecScale(rk4Sum(k1.rigidLinearAccelerations[i],
                                               k2.rigidLinearAccelerations[i],
                                               k3.rigidLinearAccelerations[i],
                                               k4.rigidLinearAccelerations[i]),
                                        NumDiv(dt, Six))),
                        dt),
                    vecAdd(next.rigidBodies[i].angularVelocity,
                           vecScale(rk4Sum(k1.rigidAngularAccelerations[i],
                                           k2.rigidAngularAccelerations[i],
                                           k3.rigidAngularAccelerations[i],
                                           k4.rigidAngularAccelerations[i]),
                                    NumDiv(dt, Six))),
                    dt)])]

\* integrateRK4 once k1, k2 and k3 are known: s4 and k4, then the last loops
rk4FromK3(ctx, current, k1, k2, k3) ==
    rk4Loops(advanceClock(cloneState(current), ctx.dt), k1, k2, k3,
             computeDerivative(ctx, rk4Stage(current, k3, ctx.dt)), ctx.dt)

\* rk4FromK2 building s3 with k1 again, not with k2
rk4FromK2UsingK1(ctx, current, k1, k2) ==
    rk4FromK3(ctx, current, k1, k2,
              computeDerivative(ctx, rk4Stage(current, k1, NumMul(ctx.dt, Half))))

\* integrateRK4 once k1 and k2 are known: s3 and k3
rk4FromK2(ctx, current, k1, k2) ==
    rk4FromK3(ctx, current, k1, k2,
              computeDerivative(ctx, rk4Stage(current, k2, NumMul(ctx.dt, Half))))

\* integrateRK4 once k1 is known: s2 and k2
rk4FromK1(ctx, current, k1) ==
    rk4FromK2(ctx, current, k1,
              computeDerivative(ctx, rk4Stage(current, k1, NumMul(ctx.dt, Half))))

integrateRK4(ctx, current) == rk4FromK1(ctx, current, computeDerivative(ctx, current))

\* pickIntegrator(name)(ctx, current)
pickIntegrator(name, ctx, current) ==
    CASE name = "euler" -> integrateEuler(ctx, current)
      [] name = "semi" -> integrateSemiImplicitEuler(ctx, current)
      [] OTHER -> integrateRK4(ctx, current)

-----
(* The heap *)

\* The first address not in use.
Fresh(h) ==
    CHOOSE a \in 1..(Cardinality(DOMAIN h) + 1) :
        a \notin DOMAIN h /\ \A b \in 1..(a - 1) : b \in DOMAIN h

Alloc(h, v) == h @@ (Fresh(h) :> v)

\* What is undefined has address 0.
Deref(h, a) == IF a = 0 THEN None ELSE Some(h[a])

\* The garbage collector: only what a holder can still reach is kept.
Collect(h, roots) == [a \in (DOMAIN h \cap roots) |-> h[a]]

SeqRange(s) == {s[i] : i \in DOMAIN s}

----------------------------------------------------------------------------
(* engine.ts: PhysicsEngine *)

\* this.pointMassIndexById after the constructor's map(): a later entry with
\* the same id overwrites an earlier one.  Indices count from 1 here.
indexById(pointMasses) ==
    [id \in {pointMasses[i].id : i \in Indices(pointMasses)} |->
        CHOOSE i \in Indices(pointMasses) :
            /\ pointMasses[i].id = id
            /\ \A j \in Indices(pointMasses) : pointMasses[j].id = id => j <= i]

\* new PhysicsEngine(cfg): the engine object and the heap after it.
construct(cfg, h) ==
    LET pointMasses == Eager([i \in Indices(cfg.pointMasses) |->
                           [ id |-> cfg.pointMasses[i].id,
                             mass |-> cfg.pointMasses[i].mass,
                             position |-> cfg.pointMasses[i].position,
                             velocity |-> cfg.pointMasses[i].velocity ]])
        rigidBodies == Eager([i \in Indices(cfg.rigidBodies) |->
                           [ id |-> cfg.rigidBodies[i].id,
                             mass |-> cfg.rigidBodies[i].mass,
                             size |-> cfg.rigidBodies[i].size,
                             position |-> cfg.rigidBodies[i].position,
                             velocity |-> cfg.rigidBodies[i].velocity,
                             orientation |-> cfg.rigidBodies[i].orientation,
                             angularVelocity |-> cfg.rigidBodies[i].angularVelocity ]])
        \* this.springs = config.springs ?? []
        h1 == IF cfg.springs # 0 THEN h ELSE Alloc(h, << >>)
        springs == IF cfg.springs # 0 THEN cfg.springs ELSE Fresh(h)
        state == [ time |-> Zero, stepIndex |-> Zero,
                   pointMasses |-> pointMasses, rigidBodies |-> rigidBodies ]
    IN  [ engine |-> [ dt |-> cfg.dt,
                       integratorName |-> cfg.integrator,
                       forces |-> cfg.forces,
                       pointMassIndexById |-> indexById(cfg.pointMasses),
                       springs |-> springs,
                       state |-> Fresh(h1) ],
          heap |-> Alloc(h1, state) ]

\* JSON.stringify writes a number that is not finite as null.
JsonNumber(x) == IF IsFinite(x) THEN x ELSE Null
JsonVec(v) == Eager([j \in DOMAIN v |-> JsonNumber(v[j])])

\* JSON.parse(JSON.stringify(state)): a new value, its numbers as JSON carries them.
JsonRoundTrip(state) ==
    [ time |-> JsonNumber(state.time),
      stepIndex |-> JsonNumber(state.stepIndex),
      pointMasses |->
          Eager([i \in Indices(state.pointMasses) |->
               [ id |-> state.pointMasses[i].id,
                 mass |-> JsonNumber(state.pointMasses[i].mass),
                 position |-> JsonVec(state.pointMasses[i].position),
                 velocity |-> JsonVec(state.pointMasses[i].velocity) ]]),
      rigidBodies |->
          Eager([i \in Indices(state.rigidBodies) |->
               [ id |-> state.rigidBodies[i].id,
                 mass |-> JsonNumber(state.rigidBodies[i].mass),
                 size |-> JsonVec(state.rigidBodies[i].size),
                 position |-> JsonVec(state.rigidBodies[i].position),
                 velocity |-> JsonVec(state.rigidBodies[i].velocity),
                 orientation |-> JsonVec(state.rigidBodies[i].orientation),
                 angularVelocity |-> JsonVec(state.rigidBodies[i].angularVelocity) ]]) ]

\* getState returning this.state itself
getStateShared(eng, h) == [ ret |-> eng.state, heap |-> h ]

\* getState(): the address of the value returned, and the heap after the call.
getState(eng, h) ==
    [ ret |-> Fresh(h), heap |-> Alloc(h, JsonRoundTrip(h[eng.state])) ]

getDt(eng) == eng.dt

\* find falling back to the first rigid body when no id matches
findRigidBodyOrFirst(rigidBodies, objectId) ==
    IF \E i \in Indices(rigidBodies) : rigidBodies[i].id = objectId
    THEN CHOOSE i \in Indices(rigidBodies) :
             /\ rigidBodies[i].id = objectId
             /\ \A j \in Indices(rigidBodies) : rigidBodies[j].id = objectId => i <= j
    ELSE IF Len(rigidBodies) > 0 THEN 1 ELSE 0

\* this.state.rigidBodies.find(r => r.id === objectId): its index, or 0.
findRigidBody(rigidBodies, objectId) ==
    IF \E i \in Indices(rigidBodies) : rigidBodies[i].id = objectId
    THEN CHOOSE i \in Indices(rigidBodies) :
             /\ rigidBodies[i].id = objectId
             /\ \A j \in Indices(rigidBodies) : rigidBodies[j].id = objectId => i <= j
    ELSE 0

\* impulseVelocity adding the impulse itself, not divided by the mass
impulseVelocityNoMass(body, impulse) == vecAdd(body.velocity, impulse)

\* The velocity applyImpulse assigns to a body.
impulseVelocity(body, impulse) ==
    vecAdd(body.velocity, vecScale(impulse, NumDiv(One, body.mass)))

\* applyImpulse looking among the rigid bodies first and in the map second
applyImpulseRigidFirst(eng, h, objectId, impulse) ==
    LET st == h[eng.state]
        rb == findRigidBody(st.rigidBodies, objectId)
    IN  IF rb # 0
        THEN [h EXCEPT ![eng.state].rigidBodies[rb].velocity =
                           impulseVelocity(st.rigidBodies[rb], impulse)]
        ELSE IF objectId \in DOMAIN eng.pointMassIndexById
             THEN [h EXCEPT ![eng.state].pointMasses[eng.pointMassIndexById[objectId]].velocity =
                      impulseVelocity(st.pointMasses[eng.pointMassIndexById[objectId]],
                                      impulse)]
             ELSE h

\* applyImpulse(objectId, impulse): the heap after the call.  The body is
\* changed in place, in the state object the engine holds.
applyImpulse(eng, h, objectId, impulse) ==
    LET st == h[eng.state]
    IN  IF objectId \in DOMAIN eng.pointMassIndexById
        THEN LET pmIndex == eng.pointMassIndexById[objectId]
             IN  [h EXCEPT ![eng.state].pointMasses[pmIndex].velocity =
                               impulseVelocity(st.pointMasses[pmIndex], impulse)]
        ELSE LET rb == findRigidBody(st.rigidBodies, objectId)
             IN  IF rb # 0
                 THEN [h EXCEPT ![eng.state].rigidBodies[rb].velocity =
                                    impulseVelocity(st.rigidBodies[rb], impulse)]
                 ELSE h

\* What the closure computeDerivative and the integrator read from the engine.
dynamicsContext(eng, h) ==
    [ dt |-> eng.dt,
      forces |-> Deref(h, eng.forces),
      springs |-> h[eng.springs],
      index |-> eng.pointMassIndexById ]

\* step(): the engine object and the heap after the call.
step(eng, h) ==
    LET next == pickIntegrator(eng.integratorName, dynamicsContext(eng, h), h[eng.state])
    IN  [ engine |-> [eng EXCEPT !.state = Fresh(h)], heap |-> Alloc(h, next) ]


----------------------------------------------------------------------------
(* The configurations the engine is built from *)

Num(i) == Int2Num(i)
Vec(x, y, z) == <<Num(x), Num(y), Num(z)>>

Integrators == {"euler", "semi", "rk4"}

\* One point mass and one spinning box under gravity (default direction).
SceneProjectile ==
    [ dt |-> One,
      forces |-> Some([ gravity |-> Some([g |-> Num(10), direction |-> None]),
                        linearDrag |-> None ]),
      pointMasses |-> << [id |-> "a", mass |-> Two, position |-> Vec(0, 0, 0),
                          velocity |-> Vec(1, 2, 0)] >>,
      rigidBodies |-> << [id |-> "r", mass |-> Two, size |-> Vec(1, 1, 1),
                          position |-> Vec(0, 1, 0), velocity |-> Vec(0, 0, 0),
                          orientation |-> IdentityQuat,
                          angularVelocity |-> <<Zero, Zero, <<3, 2>> >>] >>,
      springs |-> None ]

\* Two point masses joined by one spring, and nothing else.
SceneSpring(damping) ==
    [ dt |-> One,
      forces |-> None,
      pointMasses |-> << [id |-> "a", mass |-> One, position |-> Vec(0, 0, 0),
                          velocity |-> Vec(0, 0, 0)],
                         [id |-> "b", mass |-> Num(3), position |-> Vec(2, 0, 0),
                          velocity |-> Vec(1, 0, 0)] >>,
      rigidBodies |-> << >>,
      springs |-> Some(<< [id |-> "s", aId |-> "a", bId |-> "b", restLength |-> One,
                           stiffness |-> <<1, 4>>, damping |-> damping] >>) ]

\* Gravity along x and linear drag; the box's orientation is not a unit
\* quaternion (nothing validates a configuration).
SceneDrag ==
    [ dt |-> One,
      forces |-> Some([ gravity |-> Some([g |-> One, direction |-> Some(Vec(1, 0, 0))]),
                        linearDrag |-> Some([coefficient |-> One]) ]),
      pointMasses |-> << [id |-> "a", mass |-> One, position |-> Vec(0, 0, 0),
                          velocity |-> Vec(0, 1, 0)] >>,
      rigidBodies |-> << [id |-> "r", mass |-> One, size |-> Vec(1, 2, 1),
                          position |-> Vec(0, 0, 0), velocity |-> Vec(2, 0, 0),
                          orientation |-> <<Zero, Zero, Zero, Two>>,
                          angularVelocity |-> <<Zero, Zero, <<3, 2>> >>] >>,
      springs |-> None ]

Scenes == {SceneProjectile, SceneSpring(None), SceneSpring(Some(<<3, 2>>)), SceneDrag}

\* The caller's objects before the engine is built: the forces object and
\* the springs array, where the scene has them.
SceneHeap(scene) ==
    LET h1 == IF IsSome(scene.forces) THEN Alloc(<< >>, scene.forces[1]) ELSE << >>
    IN  IF IsSome(scene.springs) THEN Alloc(h1, scene.springs[1]) ELSE h1

SceneConfig(scene, integrator, interval) ==
    LET h1 == IF IsSome(scene.forces) THEN Alloc(<< >>, scene.forces[1]) ELSE << >>
    IN  [ dt |-> scene.dt,
          integrator |-> integrator,
          snapshotIntervalMs |-> interval,
          forces |-> IF IsSome(scene.forces) THEN Fresh(<< >>) ELSE 0,
          pointMasses |-> scene.pointMasses,
          rigidBodies |-> scene.rigidBodies,
          springs |-> IF IsSome(scene.springs) THEN Fresh(h1) ELSE 0 ]

----------------------------------------------------------------------------
(* The caller of an engine *)

MaxSteps == 3
MaxImpulses == 1
MaxSnaps == 1
MaxMutations == 1

ImpulseIds == {"a", "r", "zz"}
\* The impulses the caller applies.  In a scene with springs they are along
\* the x axis, the axis the springs lie on, so that every spring length stays
\* a rational number.
AxisImpulses == {Vec(1, 0, 0), Vec(-3, 0, 0)}
ImpulseVectors(springs) ==
    IF Len(springs) = 0 THEN AxisImpulses \cup {Vec(0, -3, 2)} ELSE AxisImpulses

Eng == engine[1]
State == heap[Eng.state]

NoCall == [op |-> "construct", id |-> "", impulse |-> ZeroVec]
NoCalls == [steps |-> 0, impulses |-> 0, mutations |-> 0, commands |-> 0, last |-> NoCall]

\* The addresses a holder can reach.
Roots(cfg, eng, sn) ==
    {cfg.forces, cfg.springs} \cup SeqRange(sn)
    \cup (IF IsSome(eng) THEN {eng[1].forces, eng[1].springs, eng[1].state} ELSE {})

DefaultSnapshotIntervalMs == 50

\* The worker module's variables as the module initializes them.
WorkerIdle ==
    /\ running = FALSE
    /\ tickHandle = 0
    /\ timers = {}
    /\ snapshotIntervalMs = DefaultSnapshotIntervalMs
    /\ lastSnapshotTime = 0
    /\ now = 0
    /\ posted = << >>

workerVars == <<running, tickHandle, timers, snapshotIntervalMs, lastSnapshotTime,
                now, posted>>

\* An engine built from one of the configurations.
Init ==
    /\ \E scene \in Scenes, integrator \in Integrators :
          LET cfg == SceneConfig(scene, integrator, None)
              built == construct(cfg, SceneHeap(scene))
          IN  /\ config = cfg
              /\ engine = Some(built.engine)
              /\ heap = built.heap
    /\ snaps = << >>
    /\ calls = NoCalls
    /\ WorkerIdle

\* engine.step(), the caller counting its calls
StepEngine ==
    /\ LET r == step(Eng, heap)
       IN  /\ engine' = Some(r.engine)
           /\ heap' = Collect(r.heap, Roots(config, Some(r.engine), snaps))
    /\ calls' = [calls EXCEPT !.steps = @ + 1, !.last = [NoCall EXCEPT !.op = "step"]]
    /\ UNCHANGED <<config, snaps, workerVars>>

\* engine.step()
Step == calls.steps < MaxSteps /\ StepEngine

\* engine.applyImpulse(objectId, impulse)
ApplyImpulse ==
    /\ calls.impulses < MaxImpulses
    /\ \E objectId \in ImpulseIds, impulse \in ImpulseVectors(heap[Eng.springs]) :
          /\ heap' = applyImpulse(Eng, heap, objectId, impulse)
          /\ calls' = [calls EXCEPT !.impulses = @ + 1,
                                    !.last = [op |-> "applyImpulse", id |-> objectId,
                                              impulse |-> impulse]]
    /\ UNCHANGED <<config, engine, snaps, workerVars>>

\* const s = engine.getState(), which the caller keeps
GetState ==
    /\ Len(snaps) < MaxSnaps
    /\ LET r == getState(Eng, heap)
       IN  /\ heap' = r.heap
           /\ snaps' = Append(snaps, r.ret)
    /\ calls' = [calls EXCEPT !.last = [NoCall EXCEPT !.op = "getState"]]
    /\ UNCHANGED <<config, engine, workerVars>>

Junk == Num(7)

\* The caller writes into a value getState() returned: s.time = 7,
\* s.pointMasses[0].velocity[0] = 7 (and its mass), or
\* s.rigidBodies[0].velocity[0] = 7 (and its orientation).
MutateSnapshot ==
    /\ calls.mutations < MaxMutations
    /\ \E k \in DOMAIN snaps :
          \/ heap' = [heap EXCEPT ![snaps[k]].time = Junk]
          \/ /\ Len(heap[snaps[k]].pointMasses) > 0
             /\ heap' = [heap EXCEPT ![snaps[k]].pointMasses[1].velocity[1] = Junk,
                                     ![snaps[k]].pointMasses[1].mass = Junk]
          \/ /\ Len(heap[snaps[k]].rigidBodies) > 0
             /\ heap' = [heap EXCEPT ![snaps[k]].rigidBodies[1].velocity[1] = Junk,
                                     ![snaps[k]].rigidBodies[1].orientation[4] = Junk]
    /\ calls' = [calls EXCEPT !.mutations = @ + 1,
                              !.last = [NoCall EXCEPT !.op = "mutateSnapshot"]]
    /\ UNCHANGED <<config, engine, snaps, workerVars>>

Next == Step \/ ApplyImpulse \/ GetState \/ MutateSnapshot

Spec == Init /\ [][Next]_vars

----------------------------------------------------------------------------
(* The caller changes its configuration object after the engine is built *)

\* config.pointMasses[0].velocity[0] = 7 (and its mass),
\* config.rigidBodies[0].velocity[0] = 7 (and its orientation),
\* config.springs[0].restLength = 2, or config.springs.pop().
MutateConfig ==
    /\ calls.mutations < MaxMutations
    /\ \/ /\ Len(config.pointMasses) > 0
          /\ config' = [config EXCEPT !.pointMasses[1].velocity[1] = Junk,
                                      !.pointMasses[1].mass = Junk]
          /\ heap' = heap
       \/ /\ Len(config.rigidBodies) > 0
          /\ config' = [config EXCEPT !.rigidBodies[1].velocity[1] = Junk,
                                      !.rigidBodies[1].orientation[4] = Junk]
          /\ heap' = heap
       \/ /\ config.springs # 0
          /\ Len(heap[config.springs]) > 0
          /\ heap' = [heap EXCEPT ![config.springs][1].restLength = Two]
          /\ config' = config
       \/ /\ config.springs # 0
          /\ Len(heap[config.springs]) > 0
          /\ heap' = [heap EXCEPT ![config.springs] = SubSeq(@, 1, Len(@) - 1)]
          /\ config' = config
    /\ calls' = [calls EXCEPT !.mutations = @ + 1,
                              !.last = [NoCall EXCEPT !.op = "mutateConfig"]]
    /\ UNCHANGED <<engine, snaps, workerVars>>

NextConfig == Step \/ ApplyImpulse \/ MutateConfig

SpecConfig == Init /\ [][NextConfig]_vars

\* The state a step() of engine eng would commit on heap h.
committedState(r) == r.heap[r.engine.state]
StepResult(eng, h) == committedState(step(eng, h))

\* C9: the engine is built with time = 0 and stepIndex = 0, and a change of the
\* config's pointMasses, rigidBodies or springs entries after the engine is
\* built changes neither the committed state nor the result of a later step().
ConfigCopied ==
    [][ /\ (calls.last.op = "construct" /\ calls.steps = 0)
            => (State.time = Zero /\ State.stepIndex = Zero)
        /\ calls'.last.op = "mutateConfig" /\ calls'.mutations # calls.mutations
            => (State' = State /\ StepResult(engine'[1], heap') = StepResult(Eng, heap)) ]_vars

----------------------------------------------------------------------------
(* Configurations nothing validates: springs without an anchor, masses that *)
(* are not positive, an id used twice.                                      *)

\* Three springs: "s" joins the two point masses, "s2" names the rigid body
\* "r" as its second anchor, "s3" names no body as its first.
SceneDangling ==
    [ dt |-> One,
      forces |-> None,
      pointMasses |-> << [id |-> "a", mass |-> One, position |-> Vec(0, 0, 0),
                          velocity |-> Vec(0, 0, 0)],
                         [id |-> "b", mass |-> Num(3), position |-> Vec(2, 0, 0),
                          velocity |-> Vec(1, 0, 0)] >>,
      rigidBodies |-> << [id |-> "r", mass |-> One, size |-> Vec(1, 1, 1),
                          position |-> Vec(4, 0, 0), velocity |-> Vec(0, 0, 0),
                          orientation |-> IdentityQuat,
                          angularVelocity |-> Vec(0, 0, 0)] >>,
      springs |-> Some(<< [id |-> "s", aId |-> "a", bId |-> "b", restLength |-> One,
                           stiffness |-> <<1, 4>>, damping |-> None],
                          [id |-> "s2", aId |-> "b", bId |-> "r", restLength |-> One,
                           stiffness |-> <<1, 4>>, damping |-> None],
                          [id |-> "s3", aId |-> "zz", bId |-> "a", restLength |-> One,
                           stiffness |-> <<1, 4>>, damping |-> None] >>) ]

\* A point mass and a box of mass 0 under linear drag.
SceneZeroMass ==
    [ dt |-> One,
      forces |-> Some([gravity |-> None,
                       linearDrag |-> Some([coefficient |-> One])]),
      pointMasses |-> << [id |-> "a", mass |-> Zero, position |-> Vec(0, 0, 0),
                          velocity |-> Vec(0, 1, 0)] >>,
      rigidBodies |-> << [id |-> "r", mass |-> Zero, size |-> Vec(1, 1, 1),
                          position |-> Vec(0, 0, 0), velocity |-> Vec(2, 0, 0),
                          orientation |-> IdentityQuat,
                          angularVelocity |-> Vec(0, 0, 0)] >>,
      springs |-> None ]

\* A point mass and a box that share the id "a", and a second box "r".
SceneSharedId ==
    [ dt |-> One,
      forces |-> Some([gravity |-> Some([g |-> Num(10), direction |-> None]),
                       linearDrag |-> None]),
      pointMasses |-> << [id |-> "a", mass |-> Two, position |-> Vec(0, 0, 0),
                          velocity |-> Vec(1, 2, 0)] >>,
      rigidBodies |-> << [id |-> "a", mass |-> One, size |-> Vec(1, 1, 1),
                          position |-> Vec(0, 1, 0), velocity |-> Vec(0, 0, 0),
                          orientation |-> IdentityQuat,
                          angularVelocity |-> Vec(0, 0, 0)],
                         [id |-> "r", mass |-> Num(4), size |-> Vec(1, 1, 1),
                          position |-> Vec(0, 2, 0), velocity |-> Vec(0, 0, 0),
                          orientation |-> IdentityQuat,
                          angularVelocity |-> Vec(0, 0, 0)] >>,
      springs |-> None ]

EdgeScenes == {SceneDangling, SceneZeroMass, SceneSharedId}

\* An engine built from one of these configurations.
InitEdge ==
    /\ \E scene \in EdgeScenes, integrator \in Integrators :
          LET cfg == SceneConfig(scene, integrator, None)
              built == construct(cfg, SceneHeap(scene))
          IN  /\ config = cfg
              /\ engine = Some(built.engine)
              /\ heap = built.heap
    /\ snaps = << >>
    /\ calls = NoCalls
    /\ WorkerIdle

SpecEdge == InitEdge /\ [][Next]_vars

----------------------------------------------------------------------------
(* The states and their bodies as objects *)

\* Each element of state.pointMasses and state.rigidBodies is an object of
\* its own, which the integrators' loops write through next.pointMasses[i],
\* s2.rigidBodies[i], ...  Here the heap holds these objects apart and a state
\* object holds their addresses.

Top(h) == IF DOMAIN h = {} THEN 0 ELSE CHOOSE a \in DOMAIN h : \A b \in DOMAIN h : b <= a

\* The state reached from address a, its bodies read through their references.
valueOf(h, a) ==
    [ time |-> h[a].time, stepIndex |-> h[a].stepIndex,
      pointMasses |-> Eager([i \in Indices(h[a].pointMasses) |-> h[h[a].pointMasses[i]]]),
      rigidBodies |-> Eager([i \in Indices(h[a].rigidBodies) |-> h[h[a].rigidBodies[i]]]) ]

\* A new state object with new body objects, holding the value v.
newState(h, t, n, m, v) ==
    [ ret |-> t + n + m + 1,
      heap |-> h @@ [x \in (t + 1)..(t + n + m + 1) |->
                       IF x <= t + n THEN v.pointMasses[x - t]
                       ELSE IF x <= t + n + m THEN v.rigidBodies[x - t - n]
                       ELSE [ time |-> v.time, stepIndex |-> v.stepIndex,
                              pointMasses |-> Eager([i \in 1..n |-> t + i]),
                              rigidBodies |-> Eager([i \in 1..m |-> t + n + i]) ]] ]

\* Assignments through the state at a and through its bodies: each body
\* object, and time and stepIndex, get what v has.
assignThrough(h, a, v) ==
    [x \in DOMAIN h |->
        IF x = a THEN [h[a] EXCEPT !.time = v.time, !.stepIndex = v.stepIndex]
        ELSE IF \E i \in Indices(h[a].rigidBodies) : h[a].rigidBodies[i] = x
        THEN v.rigidBodies[CHOOSE i \in Indices(h[a].rigidBodies) : h[a].rigidBodies[i] = x]
        ELSE IF \E i \in Indices(h[a].pointMasses) : h[a].pointMasses[i] = x
        THEN v.pointMasses[CHOOSE i \in Indices(h[a].pointMasses) : h[a].pointMasses[i] = x]
        ELSE h[x]]

\* cloneState whose arrays hold the bodies of the state cloned
cloneStateShallow(h, state) ==
    [ ret |-> Top(h) + 1, heap |-> h @@ ((Top(h) + 1) :> h[state]) ]

\* cloneState(state): map() makes a new object for every body.
cloneStateObjects(h, state) ==
    newState(h, Top(h), Len(h[state].pointMasses), Len(h[state].rigidBodies),
             cloneState(valueOf(h, state)))

\* The constructor: the state object and its bodies are new objects.
constructObjects(cfg, h) ==
    LET built == construct(cfg, h)
        state == built.heap[built.engine.state]
        rest == [a \in DOMAIN built.heap \ {built.engine.state} |-> built.heap[a]]
        made == newState(rest, Top(rest), Len(state.pointMasses), Len(state.rigidBodies),
                         state)
    IN  [ engine |-> [built.engine EXCEPT !.state = made.ret], heap |-> made.heap ]

\* applyImpulse: pm.velocity = ... or rb.velocity = ... on the body found.
applyImpulseObjects(eng, h, objectId, impulse) ==
    assignThrough(h, eng.state,
        applyImpulse(eng, (eng.state :> valueOf(h, eng.state)), objectId, impulse)[eng.state])

\* integrateEuler: next.time += dt, next.stepIndex += 1 and the loops, all
\* written through the clone next.
integrateEulerObjects(ctx, h, current) ==
    LET next == cloneStateObjects(h, current)
    IN  [ ret |-> next.ret,
          heap |-> assignThrough(next.heap, next.ret,
                       eulerLoops(advanceClock(valueOf(next.heap, next.ret), ctx.dt),
                                  computeDerivative(ctx, valueOf(h, current)), ctx.dt)) ]

integrateSemiImplicitEulerObjects(ctx, h, current) ==
    LET next == cloneStateObjects(h, current)
    IN  [ ret |-> next.ret,
          heap |-> assignThrough(next.heap, next.ret,
                       semiLoops(advanceClock(valueOf(next.heap, next.ret), ctx.dt),
                                 computeDerivative(ctx, valueOf(h, current)), ctx.dt)) ]

\* The loops over s2, s3 or s4 and the derivative taken there: the heap with
\* the intermediate state in it, and k2, k3 or k4.
rk4Evaluate(ctx, s, k, h) ==
    [ heap |-> assignThrough(s.heap, s.ret, eulerLoops(valueOf(s.heap, s.ret), k, h)),
      k |-> computeDerivative(ctx,
                valueOf(assignThrough(s.heap, s.ret,
                                      eulerLoops(valueOf(s.heap, s.ret), k, h)), s.ret)) ]

\* integrateRK4 once s4 is made and k4 known: the last clone and the last loops
rk4ObjectsFromS4(ctx, current, k1, k2, k3, s4) ==
    LET next == cloneStateObjects(s4.heap, current)
    IN  [ ret |-> next.ret,
          heap |-> assignThrough(next.heap, next.ret,
                       rk4Loops(advanceClock(valueOf(next.heap, next.ret), ctx.dt),
                                k1, k2, k3, s4.k, ctx.dt)) ]

rk4ObjectsFromS3(ctx, current, k1, k2, s3) ==
    rk4ObjectsFromS4(ctx, current, k1, k2, s3.k,
        rk4Evaluate(ctx, cloneStateObjects(s3.heap, current), s3.k, ctx.dt))

rk4ObjectsFromS2(ctx, current, k1, s2) ==
    rk4ObjectsFromS3(ctx, current, k1, s2.k,
        rk4Evaluate(ctx, cloneStateObjects(s2.heap, current), s2.k, NumMul(ctx.dt, Half)))

rk4ObjectsFromK1(ctx, h, current, k1) ==
    rk4ObjectsFromS2(ctx, current, k1,
        rk4Evaluate(ctx, cloneStateObjects(h, current), k1, NumMul(ctx.dt, Half)))

integrateRK4Objects(ctx, h, current) ==
    rk4ObjectsFromK1(ctx, h, current, computeDerivative(ctx, valueOf(h, current)))

pickIntegratorObjects(name, ctx, h, current) ==
    CASE name = "euler" -> integrateEulerObjects(ctx, h, current)
      [] name = "semi" -> integrateSemiImplicitEulerObjects(ctx, h, current)
      [] OTHER -> integrateRK4Objects(ctx, h, current)

\* this.state = integrate(ctx, this.state)
stepObjects(eng, h, next) ==
    [ engine |-> [eng EXCEPT !.state = next.ret], heap |-> next.heap ]

\* What the engine can still reach.
ReachableObjects(cfg, eng, h) ==
    {cfg.forces, cfg.springs, eng.forces, eng.springs, eng.state}
    \cup SeqRange(h[eng.state].pointMasses) \cup SeqRange(h[eng.state].rigidBodies)

InitObjects ==
    /\ \E scene \in Scenes, integrator \in Integrators :
          LET cfg == SceneConfig(scene, integrator, None)
              built == constructObjects(cfg, SceneHeap(scene))
          IN  /\ config = cfg
              /\ engine = Some(built.engine)
              /\ heap = built.heap
    /\ snaps = << >>
    /\ calls = NoCalls
    /\ WorkerIdle

\* engine.step()
StepObjects ==
    /\ calls.steps < MaxSteps
    /\ LET r == stepObjects(Eng, heap,
                    pickIntegratorObjects(Eng.integratorName, dynamicsContext(Eng, heap),
                                          heap, Eng.state))
       IN  /\ engine' = Some(r.engine)
           /\ heap' = r.heap
    /\ calls' = [calls EXCEPT !.steps = @ + 1, !.last = [NoCall EXCEPT !.op = "step"]]
    /\ UNCHANGED <<config, snaps, workerVars>>

\* engine.applyImpulse(objectId, impulse)
ApplyImpulseObjects ==
    /\ calls.impulses < MaxImpulses
    /\ \E objectId \in ImpulseIds, impulse \in ImpulseVectors(heap[Eng.springs]) :
          /\ heap' = applyImpulseObjects(Eng, heap, objectId, impulse)
          /\ calls' = [calls EXCEPT !.impulses = @ + 1,
                                    !.last = [op |-> "applyImpulse", id |-> objectId,
                                              impulse |-> impulse]]
    /\ UNCHANGED <<config, engine, snaps, workerVars>>

\* The garbage collector runs.
CollectObjects ==
    /\ DOMAIN heap # DOMAIN heap \cap ReachableObjects(config, Eng, heap)
    /\ heap' = Collect(heap, ReachableObjects(config, Eng, heap))
    /\ calls' = [calls EXCEPT !.last = [NoCall EXCEPT !.op = "collect"]]
    /\ UNCHANGED <<config, engine, snaps, workerVars>>

NextObjects == StepObjects \/ ApplyImpulseObjects \/ CollectObjects

SpecObjects == InitObjects /\ [][NextObjects]_vars

----------------------------------------------------------------------------
(* Two engines that differ in the integrator only, in rounded arithmetic.  *)
(* A JavaScript number is a binary floating-point number whose significand *)
(* has 53 bits, and every operation rounds its exact result to the nearest *)
(* such number, ties to even.  Here the significand has SignificandBits     *)
(* bits; the exponent range is not modelled.                               *)

SignificandBits == 5

\* <<num, den, e>> with num/den * 2^e the value a/d and
\* 2^(SignificandBits-1) <= num/den < 2^SignificandBits.
RECURSIVE flScaled(_, _, _)
flScaled(num, den, e) ==
    IF num >= den * 2^SignificandBits THEN flScaled(num, den * 2, e + 1)
    ELSE IF num < den * 2^(SignificandBits - 1) THEN flScaled(num * 2, den, e - 1)
    ELSE <<num, den, e>>

\* The floating-point number nearest to x, ties to the even significand.  The
\* operand is evaluated once, as v, and so is its scaled form s.
Round(x) ==
    CHOOSE r \in
        {IF ~IsFinite(v) \/ v[1] = 0 THEN v
         ELSE CHOOSE f \in
                 {LET q == s[1] \div s[2]
                      m == IF 2 * (s[1] % s[2]) > s[2]
                              \/ (2 * (s[1] % s[2]) = s[2] /\ q % 2 = 1)
                           THEN q + 1 ELSE q
                  IN  IF s[3] >= 0 THEN Rat(Sign(v) * m * 2^s[3], 1)
                      ELSE Rat(Sign(v) * m, 2^(-s[3]))
                  : s \in {flScaled(Abs(v[1]), v[2], 0)}} : TRUE
         : v \in {x}} : TRUE

\* vecAdd and vecScale, each component rounded
vecAddRounded(a, b) ==
    <<Round(NumAdd(a[1], b[1])), Round(NumAdd(a[2], b[2])), Round(NumAdd(a[3], b[3]))>>
vecScaleRounded(v, s) ==
    <<Round(NumMul(v[1], s)), Round(NumMul(v[2], s)), Round(NumMul(v[3], s))>>

\* k1 + 2 * k2 + 2 * k3 + k4 for every component, from left to right
rk4SumUnweighted(k1, k2, k3, k4) ==
    vecAddRounded(vecAddRounded(vecAddRounded(k1, k2), k3), k4)

\* [k1[0] + 2 * k2[0] + 2 * k3[0] + k4[0], ...]: the sum is taken from left
\* to right and every operation rounds.
rk4SumRounded(k1, k2, k3, k4) ==
    vecAddRounded(vecAddRounded(vecAddRounded(k1, vecScaleRounded(k2, Two)),
                                vecScaleRounded(k3, Two)), k4)

\* velocity = v, then position += v * h
setVelocityThenPositionRounded(body, v, h) ==
    [body EXCEPT !.velocity = v,
                 !.position = vecAddRounded(body.position, vecScaleRounded(v, h))]

\* next.time += dt; next.stepIndex += 1
advanceClockRounded(next, dt) ==
    [next EXCEPT !.time = Round(NumAdd(next.time, dt)),
                 !.stepIndex = Round(NumAdd(next.stepIndex, One))]

\* r.angularVelocity = w; r.orientation = advanceOrientation(r.orientation, w, h).
\* advanceOrientation is one function, called by both integrators; its
\* result is rounded once here, not at each of its operations.
setAngularRounded(r, w, h) ==
    [r EXCEPT !.angularVelocity = w,
              !.orientation = Eager([j \in 1..4 |->
                                  Round(advanceOrientation(r.orientation, w, h)[j])])]

\* The loops of integrateSemiImplicitEuler over next.
semiLoopsRounded(next, derivative, dt) ==
    [next EXCEPT
        !.pointMasses =
            Eager([i \in Indices(next.pointMasses) |->
                setVelocityThenPositionRounded(
                    next.pointMasses[i],
                    vecAddRounded(next.pointMasses[i].velocity,
                                  vecScaleRounded(derivative.pointAccelerations[i], dt)),
                    dt)]),
        !.rigidBodies =
            Eager([i \in Indices(next.rigidBodies) |->
                setAngularRounded(
                    setVelocityThenPositionRounded(
                        next.rigidBodies[i],
                        vecAddRounded(next.rigidBodies[i].velocity,
                                      vecScaleRounded(derivative.rigidLinearAccelerations[i],
                                                      dt)),
                        dt),
                    vecAddRounded(next.rigidBodies[i].angularVelocity,
                                  vecScaleRounded(derivative.rigidAngularAccelerations[i],
                                                  dt)),
                    dt)])]

\* The last loops of integrateRK4 over next.
rk4LoopsRounded(next, k1, k2, k3, k4, dt) ==
    [next EXCEPT
        !.pointMasses =
            Eager([i \in Indices(next.pointMasses) |->
                setVelocityThenPositionRounded(
                    next.pointMasses[i],
                    vecAddRounded(next.pointMasses[i].velocity,
                        vecScaleRounded(rk4SumRounded(k1.pointAccelerations[i],
                                                      k2.pointAccelerations[i],
                                                      k3.pointAccelerations[i],
                                                      k4.pointAccelerations[i]),
                                        Round(NumDiv(dt, Six)))),
                    dt)]),
        !.rigidBodies =
            Eager([i \in Indices(next.rigidBodies) |->
                setAngularRounded(
                    setVelocityThenPositionRounded(
                        next.rigidBodies[i],
                        vecAddRounded(next.rigidBodies[i].velocity,
                            vecScaleRounded(rk4SumRounded(k1.rigidLinearAccelerations[i],
                                                          k2.rigidLinearAccelerations[i],
                                                          k3.rigidLinearAccelerations[i],
                                                          k4.rigidLinearAccelerations[i]),
                                            Round(NumDiv(dt, Six)))),
                        dt),
                    vecAddRounded(next.rigidBodies[i].angularVelocity,
                        vecScaleRounded(rk4SumRounded(k1.rigidAngularAccelerations[i],
                                                      k2.rigidAngularAccelerations[i],
                                                      k3.rigidAngularAccelerations[i],
                                                      k4.rigidAngularAccelerations[i]),
                                        Round(NumDiv(dt, Six)))),
                    dt)])]

\* integrateRK4 once k1 is known.  s2, s3 and s4 are built in exact
\* arithmetic: with gravity the only force the derivative does not read the
\* positions and velocities of the state it is given.
integrateRK4Rounded(ctx, current, k1) ==
    rk4LoopsRounded(
        advanceClockRounded(cloneState(current), ctx.dt),
        k1,
        computeDerivative(ctx, rk4Stage(current, k1, NumMul(ctx.dt, Half))),
        computeDerivative(ctx, rk4Stage(current,
            computeDerivative(ctx, rk4Stage(current, k1, NumMul(ctx.dt, Half))),
            NumMul(ctx.dt, Half))),
        computeDerivative(ctx, rk4Stage(current,
            computeDerivative(ctx, rk4Stage(current,
                computeDerivative(ctx, rk4Stage(current, k1, NumMul(ctx.dt, Half))),
                NumMul(ctx.dt, Half))),
            ctx.dt)),
        ctx.dt)

\* pickIntegrator(name)(ctx, current) for the two names of the pair
pickIntegratorRounded(name, ctx, current) ==
    IF name = "semi"
    THEN semiLoopsRounded(advanceClockRounded(cloneState(current), ctx.dt),
                          computeDerivative(ctx, current), ctx.dt)
    ELSE integrateRK4Rounded(ctx, current, computeDerivative(ctx, current))

\* step()
stepRounded(eng, h) ==
    [ engine |-> [eng EXCEPT !.state = Fresh(h)],
      heap |-> Alloc(h, pickIntegratorRounded(eng.integratorName, dynamicsContext(eng, h),
                                              h[eng.state])) ]

\* applyImpulse(objectId, impulse) on bodies whose mass is a power of two:
\* 1 / mass and the product by it are exact, and the sum rounds.  Rounding
\* leaves the velocities the call did not change as they are.
applyImpulseRounded(eng, h, objectId, impulse) ==
    [h EXCEPT ![eng.state] =
        [applyImpulse(eng, h, objectId, impulse)[eng.state] EXCEPT
            !.pointMasses = Eager([i \in Indices(@) |->
                [@[i] EXCEPT !.velocity = <<Round(@[1]), Round(@[2]), Round(@[3])>>]]),
            !.rigidBodies = Eager([i \in Indices(@) |->
                [@[i] EXCEPT !.velocity = <<Round(@[1]), Round(@[2]), Round(@[3])>>]])]]

\* Gravity of strength g along the default direction, the time step dt, one
\* point mass and one spinning box.
SceneGravity(g, dt) ==
    [SceneProjectile EXCEPT
        !.dt = dt,
        !.forces = Some([ gravity |-> Some([g |-> g, direction |-> None]),
                          linearDrag |-> None ]),
        !.rigidBodies[1].angularVelocity = <<Zero, Zero, Num(4)>>]

\* Two engines built from one configuration, the first with the integrator
\* semi and the second with rk4.
InitTwins ==
    /\ \E g \in {Num(10), Num(3), Num(13)}, dt \in {One, Half} :
          LET cfg == SceneConfig(SceneGravity(g, dt), "semi", None)
              built == construct(cfg, SceneHeap(SceneGravity(g, dt)))
              twin == construct([cfg EXCEPT !.integrator = "rk4"], built.heap)
          IN  /\ config = cfg
              /\ engine = <<built.engine, twin.engine>>
              /\ heap = twin.heap
    /\ snaps = << >>
    /\ calls = NoCalls
    /\ WorkerIdle

\* step() on both engines
StepTwins ==
    /\ calls.steps < MaxSteps
    /\ LET first == stepRounded(engine[1], heap)
           second == stepRounded(engine[2], first.heap)
       IN  /\ engine' = <<first.engine, second.engine>>
           /\ heap' = Collect(second.heap, Roots(config, Some(first.engine), snaps)
                                           \cup Roots(config, Some(second.engine), snaps))
    /\ calls' = [calls EXCEPT !.steps = @ + 1, !.last = [NoCall EXCEPT !.op = "step"]]
    /\ UNCHANGED <<config, snaps, workerVars>>

\* applyImpulse(objectId, impulse) on both engines
ApplyImpulseTwins ==
    /\ calls.impulses < MaxImpulses
    /\ \E objectId \in {"a", "r"}, impulse \in AxisImpulses :
          /\ heap' = applyImpulseRounded(engine[2],
                         applyImpulseRounded(engine[1], heap, objectId, impulse),
                         objectId, impulse)
          /\ calls' = [calls EXCEPT !.impulses = @ + 1,
                                    !.last = [op |-> "applyImpulse", id |-> objectId,
                                              impulse |-> impulse]]
    /\ UNCHANGED <<config, engine, snaps, workerVars>>

SpecTwins == InitTwins /\ [][StepTwins \/ ApplyImpulseTwins]_vars

----------------------------------------------------------------------------
(* test/energy-conservation.test.ts: the projectile of the energy test *)

\* Math.round of a finite number: the integer nearest to it, a half rounded up.
MathRound(x) == (2 * x[1] + x[2]) \div (2 * x[2])

EnergyG == <<981, 100>>
EnergyM == One

EnergyScene ==
    [ dt |-> <<1, 600>>,
      forces |-> Some([gravity |-> Some([g |-> EnergyG,
                                         direction |-> Some(Vec(0, -1, 0))]),
                       linearDrag |-> None]),
      pointMasses |-> << [id |-> "proj", mass |-> EnergyM,
                          position |-> Vec(0, 0, 0), velocity |-> Vec(5, 8, 0)] >>,
      rigidBodies |-> << >>,
      springs |-> None ]

\* const steps = Math.round(5 / config.dt)
EnergySteps == MathRound(NumDiv(Num(5), EnergyScene.dt))

kineticEnergy(m, v) ==
    NumMul(NumMul(Half, m),
           NumAdd(NumAdd(NumMul(v[1], v[1]), NumMul(v[2], v[2])), NumMul(v[3], v[3])))

potentialEnergy(m, y, g) == NumMul(NumMul(m, g), y)

\* kineticEnergy(p.mass, p.velocity) + potentialEnergy(p.mass, p.position[1], g)
mechanicalEnergy(p) ==
    NumAdd(kineticEnergy(p.mass, p.velocity), potentialEnergy(p.mass, p.position[2], EnergyG))

\* const engine = new PhysicsEngine(config), with the rk4 integrator
InitEnergy ==
    /\ LET cfg == SceneConfig(EnergyScene, "rk4", Some(1000))
           built == construct(cfg, SceneHeap(EnergyScene))
       IN  /\ config = cfg
           /\ engine = Some(built.engine)
           /\ heap = built.heap
    /\ snaps = << >>
    /\ calls = NoCalls
    /\ WorkerIdle

\* for (let i = 0; i < steps; i++) engine.step()
StepEnergy == calls.steps < EnergySteps /\ StepEngine

SpecEnergy == InitEnergy /\ [][StepEnergy]_vars

\* a < b for finite a and b
NumLess(a, b) == a[1] * b[2] < b[1] * a[2]

\* Math.abs(Ef - E0) / Math.max(1, Math.abs(E0)) < 1e-3
energyWithinTolerance(E0, Ef) ==
    NumLess(NumDiv(NumAbs(NumSub(Ef, E0)),
                   IF NumLess(One, NumAbs(E0)) THEN NumAbs(E0) ELSE One),
            <<1, 1000>>)

\* C6: for the projectile of the energy test (mass 1, velocity [5,8,0],
\* g = 9.81 along [0,-1,0], rk4, dt = 1/600), after round(5/dt) = 3000 steps
\* the mechanical energy differs from the initial one by less than 1e-3
\* relative to max(1, |E0|).
EnergyConserved ==
    calls.steps = EnergySteps
        => energyWithinTolerance(mechanicalEnergy(config.pointMasses[1]),
                                 mechanicalEnergy(State.pointMasses[1]))

----------------------------------------------------------------------------
(* The physics worker: the module variables, postSnapshot, loopTick and the *)
(* api object.  Times are in milliseconds.                                  *)

MaxCommands == 3
MaxNow == 40
TimeStep == 10
DefaultTickMs == 8

\* The configuration the page sends: a projectile under gravity, 100 steps
\* per second.
SceneWorker ==
    [ dt |-> <<1, 100>>,
      forces |-> Some([gravity |-> Some([g |-> Num(10), direction |-> None]),
                       linearDrag |-> None]),
      pointMasses |-> << [id |-> "a", mass |-> Two,
                          position |-> Vec(0, 0, 0), velocity |-> Vec(1, 2, 0)] >>,
      rigidBodies |-> << >>,
      springs |-> None ]

WorkerIntervals == {None, Some(20)}
WorkerIntegrators == {"euler", "rk4"}

NoConfig ==
    [ dt |-> Zero, integrator |-> "rk4", snapshotIntervalMs |-> None, forces |-> 0,
      pointMasses |-> << >>, rigidBodies |-> << >>, springs |-> 0 ]

\* dt ? Math.max(1, Math.round(dt * 1000)) : 8, for a finite dt
targetMs(dt) ==
    IF NumIsZero(dt) \/ IsNaN(dt) THEN DefaultTickMs
    ELSE IF MathRound(NumMul(dt, Num(1000))) > 1 THEN MathRound(NumMul(dt, Num(1000)))
    ELSE 1

\* The handle setInterval returns: one no active timer has.
newHandle(active) ==
    CHOOSE id \in 1..(Cardinality(active) + 1) : \A t \in active : t.id # id

\* self.postMessage(message): the message, with the time it is posted at and
\* the function that posts it.
postMessage(type, by) == posted' = Append(posted, [type |-> type, at |-> now, by |-> by])

\* One more command from the page.
command(op) ==
    calls' = [calls EXCEPT !.commands = @ + 1, !.last = [NoCall EXCEPT !.op = op]]

\* engine.step() followed by postSnapshot() or not
workerStep ==
    LET r == step(Eng, heap)
    IN  /\ engine' = Some(r.engine)
        /\ heap' = Collect(r.heap, Roots(config, Some(r.engine), snaps))

\* The worker module as loaded: no engine yet.
InitWorker ==
    /\ config = NoConfig
    /\ heap = << >>
    /\ engine = None
    /\ snaps = << >>
    /\ calls = NoCalls
    /\ WorkerIdle

\* api.init(config)
ApiInit ==
    /\ calls.commands < MaxCommands
    /\ \E interval \in WorkerIntervals, integrator \in WorkerIntegrators :
          LET cfg == SceneConfig(SceneWorker, integrator, interval)
              built == construct(cfg, SceneHeap(SceneWorker))
          IN  /\ config' = cfg
              /\ engine' = Some(built.engine)
              /\ heap' = built.heap
              /\ snapshotIntervalMs' = OrElse(cfg.snapshotIntervalMs,
                                              DefaultSnapshotIntervalMs)
    /\ lastSnapshotTime' = now
    /\ postMessage("initialized", "init")
    /\ command("init")
    /\ UNCHANGED <<snaps, running, tickHandle, timers, now>>

\* api.start() without the test of running
ApiStartAgain ==
    /\ calls.commands < MaxCommands
    /\ command("start")
    /\ IF engine = None
       THEN UNCHANGED <<running, tickHandle, timers, posted>>
       ELSE /\ running' = TRUE
            /\ tickHandle' = newHandle(timers)
            /\ timers' = timers \cup
                   { [ id |-> newHandle(timers),
                       period |-> targetMs(getDt(Eng)),
                       due |-> now + targetMs(getDt(Eng)) ] }
            /\ postMessage("started", "start")
    /\ UNCHANGED <<config, heap, engine, snaps, snapshotIntervalMs, lastSnapshotTime, now>>

\* api.start()
ApiStart ==
    /\ calls.commands < MaxCommands
    /\ command("start")
    /\ IF engine = None \/ running
       THEN UNCHANGED <<running, tickHandle, timers, posted>>
       ELSE /\ running' = TRUE
            /\ tickHandle' = newHandle(timers)
            /\ timers' = timers \cup
                   { [ id |-> newHandle(timers),
                       period |-> targetMs(getDt(Eng)),
                       due |-> now + targetMs(getDt(Eng)) ] }
            /\ postMessage("started", "start")
    /\ UNCHANGED <<config, heap, engine, snaps, snapshotIntervalMs, lastSnapshotTime, now>>

\* api.pause()
ApiPause ==
    /\ calls.commands < MaxCommands
    /\ command("pause")
    /\ running' = FALSE
    /\ IF tickHandle # 0
       THEN /\ timers' = {t \in timers : t.id # tickHandle}
            /\ tickHandle' = 0
       ELSE UNCHANGED <<timers, tickHandle>>
    /\ postMessage("paused", "pause")
    /\ UNCHANGED <<config, heap, engine, snaps, snapshotIntervalMs, lastSnapshotTime, now>>

\* api.step()
ApiStep ==
    /\ calls.commands < MaxCommands
    /\ command("step")
    /\ IF engine = None
       THEN UNCHANGED <<heap, engine, posted>>
       ELSE workerStep /\ postMessage("snapshot", "step")
    /\ UNCHANGED <<config, snaps, running, tickHandle, timers, snapshotIntervalMs,
                   lastSnapshotTime, now>>

\* api.applyImpulse(objectId, impulseVec)
ApiApplyImpulse ==
    /\ calls.commands < MaxCommands
    /\ \E objectId \in {"a", "zz"} :
          /\ calls' = [calls EXCEPT !.commands = @ + 1,
                                    !.last = [op |-> "applyImpulse", id |-> objectId,
                                              impulse |-> Vec(1, 0, 0)]]
          /\ IF engine = None
             THEN heap' = heap
             ELSE heap' = applyImpulse(Eng, heap, objectId, Vec(1, 0, 0))
    /\ UNCHANGED <<config, engine, snaps, workerVars>>

\* loopTick with the line lastSnapshotTime = now left out
loopTickNoStamp ==
    IF engine = None \/ ~running
    THEN UNCHANGED <<heap, engine, lastSnapshotTime, posted>>
    ELSE /\ workerStep
         /\ IF now - lastSnapshotTime >= snapshotIntervalMs
            THEN /\ lastSnapshotTime' = lastSnapshotTime
                 /\ postMessage("snapshot", "loopTick")
            ELSE UNCHANGED <<lastSnapshotTime, posted>>

\* loopTick with engine.step() moved inside the if that posts the snapshot
loopTickStepWhenPosting ==
    IF engine = None \/ ~running
    THEN UNCHANGED <<heap, engine, lastSnapshotTime, posted>>
    ELSE IF now - lastSnapshotTime >= snapshotIntervalMs
         THEN /\ workerStep
              /\ lastSnapshotTime' = now
              /\ postMessage("snapshot", "loopTick")
         ELSE UNCHANGED <<heap, engine, lastSnapshotTime, posted>>

\* loopTick()
loopTick ==
    IF engine = None \/ ~running
    THEN UNCHANGED <<heap, engine, lastSnapshotTime, posted>>
    ELSE /\ workerStep
         /\ IF now - lastSnapshotTime >= snapshotIntervalMs
            THEN /\ lastSnapshotTime' = now
                 /\ postMessage("snapshot", "loopTick")
            ELSE UNCHANGED <<lastSnapshotTime, posted>>

\* An interval timer that is due runs loopTick and is set again, one period
\* from now.
TimerFires ==
    /\ \E t \in timers :
          /\ now >= t.due
          /\ timers' = (timers \ {t}) \cup {[t EXCEPT !.due = now + t.period]}
    /\ loopTick
    /\ calls' = [calls EXCEPT !.last = [NoCall EXCEPT !.op = "tick"]]
    /\ UNCHANGED <<config, snaps, running, tickHandle, snapshotIntervalMs, now>>

\* Time passes.
ClockAdvances ==
    /\ now < MaxNow
    /\ now' = now + TimeStep
    /\ UNCHANGED <<config, heap, engine, snaps, calls, running, tickHandle, timers,
                   snapshotIntervalMs, lastSnapshotTime, posted>>

NextWorker ==
    \/ ApiInit
    \/ ApiStart
    \/ ApiPause
    \/ ApiStep
    \/ ApiApplyImpulse
    \/ TimerFires
    \/ ClockAdvances

SpecWorker == InitWorker /\ [][NextWorker]_vars

----------------------------------------------------------------------------
(* Properties of the engine under its caller (Spec) *)

\* C1: after any sequence of step(), applyImpulse() and getState() calls, with
\* any integrator, stepIndex is the number of step() calls made so far and
\* time is that number times dt.
ClockInLockstep ==
    /\ State.stepIndex = Num(calls.steps)
    /\ State.time = NumMul(Num(calls.steps), Eng.dt)

\* C1 witness: several steps were made, with an impulse and a getState() among
\* the calls.
ClockInLockstepWitness ==
    calls.steps >= 2 /\ calls.impulses > 0 /\ Len(snaps) > 0

\* Everything a later step(), applyImpulse() or getState() reads.
EngineView ==
    [ engine |-> Eng,
      state |-> State,
      springs |-> heap[Eng.springs],
      forces |-> Deref(heap, Eng.forces) ]

\* C2: a write into a value getState() returned changes nothing a later
\* step(), applyImpulse() or getState() reads, and no step() or applyImpulse()
\* changes a value getState() has already returned.
SnapshotIsolation ==
    [][ /\ calls'.mutations # calls.mutations => EngineView' = EngineView
        /\ (calls'.steps # calls.steps \/ calls'.impulses # calls.impulses)
              => \A k \in DOMAIN snaps : heap'[snaps[k]] = heap[snaps[k]] ]_vars

\* C2 witness: a snapshot was taken and written into, an impulse was applied,
\* and the engine has just stepped.
SnapshotIsolationWitness ==
    /\ Len(snaps) > 0
    /\ calls.mutations > 0
    /\ calls.impulses > 0
    /\ calls.last.op = "step"

\* v + J / m, component by component
VelocityAfterImpulse(v, J, m) ==
    << NumAdd(v[1], NumDiv(J[1], m)), NumAdd(v[2], NumDiv(J[2], m)),
       NumAdd(v[3], NumDiv(J[3], m)) >>

\* C3: applyImpulse(id, J) on an existing point mass of mass m adds J/m to that
\* point mass's velocity and changes nothing else (position, time, stepIndex,
\* every other body, the engine object, every other object), with every
\* integrator.
ImpulseOnPointMass ==
    [][ (calls'.impulses # calls.impulses
         /\ calls'.last.id \in DOMAIN Eng.pointMassIndexById)
        => LET i == Eng.pointMassIndexById[calls'.last.id]
           IN  /\ engine' = engine
               /\ State' = [State EXCEPT
                               !.pointMasses[i].velocity =
                                   VelocityAfterImpulse(State.pointMasses[i].velocity,
                                                        calls'.last.impulse,
                                                        State.pointMasses[i].mass)]
               /\ \A a \in DOMAIN heap \ {Eng.state} : heap'[a] = heap[a] ]_vars

\* C3 witness: an impulse has just been applied to point mass "a" of mass 2,
\* after a step.
ImpulseOnPointMassWitness ==
    /\ calls.last.op = "applyImpulse"
    /\ calls.last.id = "a"
    /\ calls.steps > 0
    /\ State.pointMasses[Eng.pointMassIndexById["a"]].mass = Two

BodyIds(st) ==
    {st.pointMasses[i].id : i \in Indices(st.pointMasses)}
    \cup {st.rigidBodies[i].id : i \in Indices(st.rigidBodies)}

\* C4: applyImpulse(id, J) with an id that is no point mass's and no rigid
\* body's leaves the committed state, and everything else, as it was.
UnknownImpulseIgnored ==
    [][ (calls'.impulses # calls.impulses /\ calls'.last.id \notin BodyIds(State))
        => (heap' = heap /\ engine' = engine) ]_vars

\* C4 witness: an impulse has just been applied to the id "zz" in a scene with
\* a rigid body, after a step.
UnknownImpulseIgnoredWitness ==
    /\ calls.last.op = "applyImpulse"
    /\ calls.last.id = "zz"
    /\ calls.steps > 0
    /\ Len(State.rigidBodies) > 0

\* The sum over the point masses of mass x velocity.
RECURSIVE MomentumUpTo(_, _)
MomentumUpTo(pointMasses, n) ==
    IF n = 0 THEN ZeroVec
    ELSE vecAdd(MomentumUpTo(pointMasses, n - 1),
                vecScale(pointMasses[n].velocity, pointMasses[n].mass))
Momentum(pointMasses) == MomentumUpTo(pointMasses, Len(pointMasses))

\* Two point masses joined by one spring, no gravity, no drag, no impulse applied.
SpringOnly ==
    /\ config.forces = 0
    /\ config.springs # 0
    /\ Len(heap[Eng.springs]) = 1
    /\ Len(State.pointMasses) = 2
    /\ Len(State.rigidBodies) = 0
    /\ calls.impulses = 0

\* C7: for two point masses joined only by one spring, damped or not, the
\* total momentum after every step() is that of the initial state, with every
\* integrator.
MomentumConserved ==
    SpringOnly => Momentum(State.pointMasses) = Momentum(config.pointMasses)

\* C7 witness: a damped spring scene after the last step, the two velocities
\* no longer the initial ones.
MomentumConservedWitness ==
    /\ SpringOnly
    /\ IsSome(heap[Eng.springs][1].damping)
    /\ calls.steps = MaxSteps
    /\ State.pointMasses[1].velocity # config.pointMasses[1].velocity
    /\ State.pointMasses[2].velocity # config.pointMasses[2].velocity

\* x^2 + y^2 + z^2 + w^2
NormSquared(q) ==
    NumAdd(NumAdd(NumMul(q[1], q[1]), NumMul(q[2], q[2])),
           NumAdd(NumMul(q[3], q[3]), NumMul(q[4], q[4])))

\* C8 as stated: in every state the engine produces, the initial one included,
\* every rigid body's orientation has norm 1.
OrientationAlwaysUnit ==
    \A i \in Indices(State.rigidBodies) :
        NormSquared(State.rigidBodies[i].orientation) = One

\* C8 amended: after one or more step() calls every rigid body's orientation
\* has norm 1; before the first step() it is the configuration's orientation
\* as given, whatever its norm.
OrientationUnitAfterStep ==
    \A i \in Indices(State.rigidBodies) :
        IF calls.steps > 0
        THEN NormSquared(State.rigidBodies[i].orientation) = One
        ELSE State.rigidBodies[i].orientation = config.rigidBodies[i].orientation

\* C8 witness: a rigid body configured with an orientation of norm 2, spinning,
\* after steps and an impulse.
OrientationUnitAfterStepWitness ==
    /\ Len(State.rigidBodies) > 0
    /\ NormSquared(config.rigidBodies[1].orientation) # One
    /\ calls.steps >= 2
    /\ calls.impulses > 0
    /\ State.rigidBodies[1].orientation # IdentityQuat

----------------------------------------------------------------------------
(* Properties of the worker (SpecWorker) *)

IsSnapshot(message) == message.type = "snapshot"
Snapshots == SelectSeq(posted, IsSnapshot)

\* A snapshot is posted in this step.
SnapshotPosted ==
    /\ Len(posted') = Len(posted) + 1
    /\ posted'[Len(posted')].type = "snapshot"

\* C10 as stated: a snapshot is posted only when at least snapshotIntervalMs
\* has passed since the snapshot posted before it, whichever command or tick
\* posts it.
SnapshotsThrottled ==
    [][ (SnapshotPosted /\ Len(Snapshots) > 0)
        => now' - Snapshots[Len(Snapshots)].at >= snapshotIntervalMs' ]_vars

\* The messages the throttle of loopTick counts from: the last init and the
\* snapshots loopTick itself posted.
ThrottleOrigins ==
    {k \in DOMAIN posted :
        posted[k].type = "initialized" \/ (IsSnapshot(posted[k]) /\ posted[k].by = "loopTick")}

LastThrottleOrigin ==
    posted[CHOOSE k \in ThrottleOrigins : \A j \in ThrottleOrigins : j <= k]

\* C10 amended: a snapshot posted by a timer tick comes at least
\* snapshotIntervalMs after the last init and after the last snapshot a tick
\* posted, however many steps were made in between; a step command with an
\* engine posts a snapshot at once, whatever time has passed.
TickSnapshotsThrottled ==
    [][ /\ (SnapshotPosted /\ posted'[Len(posted')].by = "loopTick")
            => (/\ ThrottleOrigins # {}
                /\ now' - LastThrottleOrigin.at >= snapshotIntervalMs')
        /\ (calls'.commands # calls.commands /\ calls'.last.op = "step" /\ engine # None)
            => posted' = Append(posted, [type |-> "snapshot", at |-> now, by |-> "step"])
      ]_vars

\* C10 witness: two ticks have posted snapshots, ticks in between posted none,
\* and a step command posted one of its own.
TickSnapshotsThrottledWitness ==
    /\ \E i, j \in DOMAIN posted :
          /\ i < j
          /\ IsSnapshot(posted[i]) /\ posted[i].by = "loopTick"
          /\ IsSnapshot(posted[j]) /\ posted[j].by = "loopTick"
    /\ \E k \in DOMAIN posted : IsSnapshot(posted[k]) /\ posted[k].by = "step"
    /\ State.stepIndex = Num(5)

----------------------------------------------------------------------------
(* Properties of the engine built from a configuration nothing validated    *)
(* (SpecEdge)                                                               *)

PointMassIds == {config.pointMasses[i].id : i \in Indices(config.pointMasses)}

\* Both anchors of the spring are ids of configured point masses.
Anchored(spring) == spring.aId \in PointMassIds /\ spring.bId \in PointMassIds

\* C11: a spring whose aId or bId is not the id of a configured point mass (the
\* id of a rigid body included) contributes nothing: every step() commits the
\* state it would commit with those springs removed.
DanglingSpringsIgnored ==
    [][ calls'.steps # calls.steps
        => State' = StepResult(Eng, [heap EXCEPT ![Eng.springs] = SelectSeq(@, Anchored)])
      ]_vars

\* C11 witness: two steps were made with a spring anchored at a rigid body's id
\* and one anchored at no body's id, while the anchored spring moved both ends.
DanglingSpringsIgnoredWitness ==
    /\ calls.steps >= 2
    /\ \E k \in Indices(heap[Eng.springs]) :
          heap[Eng.springs][k].bId \in {State.rigidBodies[i].id : i \in Indices(State.rigidBodies)}
    /\ \E k \in Indices(heap[Eng.springs]) : heap[Eng.springs][k].aId \notin BodyIds(State)
    /\ \A i \in Indices(State.pointMasses) :
          State.pointMasses[i].velocity # config.pointMasses[i].velocity

\* C12: in every reachable state, those with a non-finite velocity or position
\* included, the value getState() returns equals the committed state field
\* for field.
GetStateEqualsCommitted ==
    [][ Len(snaps') = Len(snaps) + 1 => heap'[snaps'[Len(snaps')]] = State ]_vars

----------------------------------------------------------------------------
(* The integrators' formulas (Spec) *)

\* A body moved for a time h: position + velocity * h, velocity + a * h.
MovedBody(body, a, h) ==
    [body EXCEPT !.position = vecAdd(body.position, vecScale(body.velocity, h)),
                 !.velocity = vecAdd(body.velocity, vecScale(a, h))]

\* The state st advanced by h using the derivative k.
AdvancedBy(st, k, h) ==
    [st EXCEPT
        !.pointMasses = Eager([i \in Indices(st.pointMasses) |->
                            MovedBody(st.pointMasses[i], k.pointAccelerations[i], h)]),
        !.rigidBodies = Eager([i \in Indices(st.rigidBodies) |->
                            MovedBody(st.rigidBodies[i], k.rigidLinearAccelerations[i], h)])]

\* (a1 + 2 * a2 + 2 * a3 + a4) / 6
WeightedMean(a1, a2, a3, a4) ==
    vecScale(vecAdd(vecAdd(a1, vecScale(a2, Two)), vecAdd(vecScale(a3, Two), a4)),
             NumDiv(One, Six))

\* The body's velocity is v + a * dt and its position p + (that velocity) * dt.
VelocityFirst(after, before, a, dt) ==
    /\ after.velocity = vecAdd(before.velocity, vecScale(a, dt))
    /\ after.position = vecAdd(before.position, vecScale(after.velocity, dt))

\* The body's position is p + v * dt and its velocity v + a * dt.
PositionFirst(after, before, a, dt) ==
    /\ after.position = vecAdd(before.position, vecScale(before.velocity, dt))
    /\ after.velocity = vecAdd(before.velocity, vecScale(a, dt))

Rk4Bodies(after, before, k1, k2, k3, k4, dt) ==
    /\ \A i \in Indices(before.pointMasses) :
          VelocityFirst(after.pointMasses[i], before.pointMasses[i],
                        WeightedMean(k1.pointAccelerations[i], k2.pointAccelerations[i],
                                     k3.pointAccelerations[i], k4.pointAccelerations[i]),
                        dt)
    /\ \A i \in Indices(before.rigidBodies) :
          VelocityFirst(after.rigidBodies[i], before.rigidBodies[i],
                        WeightedMean(k1.rigidLinearAccelerations[i],
                                     k2.rigidLinearAccelerations[i],
                                     k3.rigidLinearAccelerations[i],
                                     k4.rigidLinearAccelerations[i]),
                        dt)

Rk4GivenK3(after, before, ctx, k1, k2, k3) ==
    Rk4Bodies(after, before, k1, k2, k3,
              computeDerivative(ctx, AdvancedBy(before, k3, ctx.dt)), ctx.dt)

Rk4GivenK2(after, before, ctx, k1, k2) ==
    Rk4GivenK3(after, before, ctx, k1, k2,
               computeDerivative(ctx, AdvancedBy(before, k2, NumDiv(ctx.dt, Two))))

Rk4GivenK1(after, before, ctx, k1) ==
    Rk4GivenK2(after, before, ctx, k1,
               computeDerivative(ctx, AdvancedBy(before, k1, NumDiv(ctx.dt, Two))))

\* C13: one rk4 step takes k1 at the current state, k2 at the current state
\* advanced by dt/2 using k1, k3 at the current state advanced by dt/2 using
\* k2 and k4 at the current state advanced by dt using k3; each body's new
\* velocity is the old one + (k1 + 2 k2 + 2 k3 + k4)/6 * dt and its new
\* position the old one + the new velocity * dt.
Rk4Formula ==
    [][ (calls'.steps # calls.steps /\ Eng.integratorName = "rk4")
        => Rk4GivenK1(heap'[engine'[1].state], State, dynamicsContext(Eng, heap),
                      computeDerivative(dynamicsContext(Eng, heap), State)) ]_vars

\* C13 witness: the second rk4 step was just made under linear drag, where the
\* four derivatives differ.
Rk4FormulaWitness ==
    /\ Eng.integratorName = "rk4"
    /\ calls.last.op = "step"
    /\ calls.steps >= 2
    /\ Eng.forces # 0
    /\ IsSome(heap[Eng.forces].linearDrag)
    /\ Len(State.pointMasses) > 0 /\ Len(State.rigidBodies) > 0

\* Every body of `after` is the body of `before` moved position first (euler)
\* or velocity first (semi) with the acceleration k gives it.
EulerBodies(after, before, k, dt) ==
    /\ \A i \in Indices(before.pointMasses) :
          PositionFirst(after.pointMasses[i], before.pointMasses[i],
                        k.pointAccelerations[i], dt)
    /\ \A i \in Indices(before.rigidBodies) :
          PositionFirst(after.rigidBodies[i], before.rigidBodies[i],
                        k.rigidLinearAccelerations[i], dt)

SemiBodies(after, before, k, dt) ==
    /\ \A i \in Indices(before.pointMasses) :
          VelocityFirst(after.pointMasses[i], before.pointMasses[i],
                        k.pointAccelerations[i], dt)
    /\ \A i \in Indices(before.rigidBodies) :
          VelocityFirst(after.rigidBodies[i], before.rigidBodies[i],
                        k.rigidLinearAccelerations[i], dt)

\* C14: for every body, one euler step sets position to old position + old
\* velocity * dt and velocity to old velocity + acceleration * dt; one semi
\* step sets velocity to old velocity + acceleration * dt and position to old
\* position + new velocity * dt; the acceleration is the derivative at the
\* state before the step in both.
EulerSemiFormula ==
    [][ /\ (calls'.steps # calls.steps /\ Eng.integratorName = "euler")
            => EulerBodies(heap'[engine'[1].state], State,
                           computeDerivative(dynamicsContext(Eng, heap), State), Eng.dt)
        /\ (calls'.steps # calls.steps /\ Eng.integratorName = "semi")
            => SemiBodies(heap'[engine'[1].state], State,
                          computeDerivative(dynamicsContext(Eng, heap), State), Eng.dt)
      ]_vars

\* C14 witness: the second semi step was just made on two point masses joined
\* by a damped spring, both moving.
EulerSemiFormulaWitness ==
    /\ Eng.integratorName = "semi"
    /\ calls.last.op = "step"
    /\ calls.steps >= 2
    /\ Len(heap[Eng.springs]) > 0
    /\ IsSome(heap[Eng.springs][1].damping)
    /\ \A i \in Indices(State.pointMasses) : State.pointMasses[i].velocity # ZeroVec

\* C16: every rigid body's angularVelocity is its configured initial value in
\* every reachable state, under any sequence of step() and applyImpulse()
\* calls and with every integrator.
AngularVelocityConstant ==
    \A i \in Indices(State.rigidBodies) :
        State.rigidBodies[i].angularVelocity = config.rigidBodies[i].angularVelocity

\* C16 witness: a spinning box under gravity after two steps and an impulse on
\* it.
AngularVelocityConstantWitness ==
    /\ Len(State.rigidBodies) > 0
    /\ State.rigidBodies[1].angularVelocity # ZeroVec
    /\ Eng.forces # 0
    /\ calls.steps >= 2
    /\ calls.last.op = "applyImpulse"
    /\ calls.last.id = State.rigidBodies[1].id

----------------------------------------------------------------------------
(* Which body an impulse goes to (SpecEdge) *)

RigidBodiesWithId(st, id) == {i \in Indices(st.rigidBodies) : st.rigidBodies[i].id = id}
PointMassesWithId(st, id) == {i \in Indices(st.pointMasses) : st.pointMasses[i].id = id}

\* The body st.kind[i] has received the impulse J and nothing else has changed.
OnlyVelocityOf(after, st, kind, i, J) ==
    after = [st EXCEPT ![kind][i].velocity =
                          VelocityAfterImpulse(st[kind][i].velocity, J, st[kind][i].mass)]

\* C17: applyImpulse looks for the id among the point masses first and among
\* the rigid bodies second: where a point mass and a rigid body share the id,
\* only the point mass's velocity changes; a rigid body receives
\* velocity += impulse / mass only when no point mass has the id.
ImpulseResolution ==
    [][ calls'.impulses # calls.impulses
        => IF PointMassesWithId(State, calls'.last.id) # {}
           THEN \E i \in PointMassesWithId(State, calls'.last.id) :
                    OnlyVelocityOf(heap'[engine'[1].state], State, "pointMasses", i,
                                   calls'.last.impulse)
           ELSE IF RigidBodiesWithId(State, calls'.last.id) # {}
           THEN \E i \in RigidBodiesWithId(State, calls'.last.id) :
                    OnlyVelocityOf(heap'[engine'[1].state], State, "rigidBodies", i,
                                   calls'.last.impulse)
           ELSE heap'[engine'[1].state] = State ]_vars

\* C17 witness: an impulse with the id "a" has just been applied where a point
\* mass and a rigid body both have the id "a", after a step.
ImpulseResolutionWitness ==
    /\ calls.last.op = "applyImpulse"
    /\ calls.last.id = "a"
    /\ PointMassesWithId(State, "a") # {}
    /\ RigidBodiesWithId(State, "a") # {}
    /\ calls.steps > 0

----------------------------------------------------------------------------
(* The bodies and the id-to-index map (Spec) *)

\* C20: step() and applyImpulse() keep the number and the order of the point
\* masses and rigid bodies and each body's id, mass and size, so in every
\* reachable state the point mass at the index the map gives for an id has
\* that id.
BodiesAndIndexFixed ==
    /\ Len(State.pointMasses) = Len(config.pointMasses)
    /\ Len(State.rigidBodies) = Len(config.rigidBodies)
    /\ \A i \in Indices(State.pointMasses) :
          /\ State.pointMasses[i].id = config.pointMasses[i].id
          /\ State.pointMasses[i].mass = config.pointMasses[i].mass
    /\ \A i \in Indices(State.rigidBodies) :
          /\ State.rigidBodies[i].id = config.rigidBodies[i].id
          /\ State.rigidBodies[i].mass = config.rigidBodies[i].mass
          /\ State.rigidBodies[i].size = config.rigidBodies[i].size
    /\ \A id \in DOMAIN Eng.pointMassIndexById :
          /\ Eng.pointMassIndexById[id] \in Indices(State.pointMasses)
          /\ State.pointMasses[Eng.pointMassIndexById[id]].id = id

\* C20 witness: two point masses with different ids after two steps and an
\* impulse.
BodiesAndIndexFixedWitness ==
    /\ Len(State.pointMasses) = 2
    /\ State.pointMasses[1].id # State.pointMasses[2].id
    /\ calls.steps >= 2
    /\ calls.impulses > 0

----------------------------------------------------------------------------
(* Ticks, pause and the timer (SpecWorker) *)

\* The "started" and "paused" messages posted so far.
IsRunMessage(message) == message.type \in {"started", "paused"}
RunMessages == SelectSeq(posted, IsRunMessage)

\* No start command has taken effect since the last pause command, or ever.
Paused == RunMessages = << >> \/ RunMessages[Len(RunMessages)].type = "paused"

\* An interval timer has just run loopTick.
TickFired == calls'.last.op = "tick" /\ timers' # timers

\* C18: a timer tick while running makes exactly one engine step, and from a
\* pause command until the next start command no timer tick changes the
\* engine: stepIndex changes only by a step command (or a new init).
TicksStepOnce ==
    [][ /\ (TickFired /\ ~Paused)
            => (engine # None /\ heap'[engine'[1].state] = StepResult(Eng, heap))
        /\ (TickFired /\ Paused) => UNCHANGED <<engine, heap>>
        /\ (Paused /\ Paused' /\ engine # None /\ engine' # None
            /\ heap'[engine'[1].state].stepIndex # State.stepIndex)
            => (calls'.commands # calls.commands /\ calls'.last.op \in {"step", "init"})
      ]_vars

\* C18 witness: ticks have stepped the engine twice, a pause followed, and the
\* time at which the next tick was due has passed.
TicksStepOnceWitness ==
    /\ Paused
    /\ \E k \in DOMAIN posted : posted[k].type = "started"
    /\ State.stepIndex = Two
    /\ now >= posted[Len(posted)].at + 2 * TimeStep
    /\ posted[Len(posted)].type = "paused"

\* running is true exactly when a handle is held, the handle is that of the
\* one active timer, and no other timer is active.
TimerHeld ==
    /\ running <=> tickHandle # 0
    /\ Cardinality(timers) <= 1
    /\ tickHandle # 0 <=> (\E t \in timers : t.id = tickHandle)

\* C19: after any sequence of commands running is true exactly when a tick
\* timer handle is held and at most one interval timer is active; start when
\* already running, or before any init, creates no timer and posts nothing.
TimerMatchesRunning ==
    [][ /\ TimerHeld
        /\ TimerHeld'
        /\ (calls'.commands # calls.commands /\ calls'.last.op = "start"
            /\ (engine = None \/ running))
            => UNCHANGED <<timers, tickHandle, running, posted>> ]_vars

\* C19 witness: start has just been called while running, some time after the
\* start that created the timer.
TimerMatchesRunningWitness ==
    /\ calls.last.op = "start"
    /\ running
    /\ posted[Len(posted)].type = "started"
    /\ posted[Len(posted)].at < now

----------------------------------------------------------------------------
(* The pre-step state during a step (SpecObjects) *)

\* The state objects in the heap: all but the force and spring objects have
\* named fields, and only a state has stepIndex.
StateObjects(h) ==
    {a \in DOMAIN h \ {config.forces, config.springs, Eng.forces, Eng.springs} :
        "stepIndex" \in DOMAIN h[a]}

\* C15: during step() no integrator changes the pre-step state or any other
\* object there was before the call; the state committed is a new object whose
\* value is the integrator's function of the pre-step value and the
\* configuration alone; the intermediate states the step leaves behind keep
\* the pre-step stepIndex and are not the one committed; and the engine's
\* state reference changes in a step only, once.
PreStepStateKept ==
    [][ /\ calls'.steps # calls.steps =>
             /\ \A a \in DOMAIN heap : a \in DOMAIN heap' /\ heap'[a] = heap[a]
             /\ engine'[1].state \notin DOMAIN heap
             /\ valueOf(heap', engine'[1].state)
                   = pickIntegrator(Eng.integratorName, dynamicsContext(Eng, heap),
                                    valueOf(heap, Eng.state))
             /\ \A a \in StateObjects(heap') \ (DOMAIN heap \cup {engine'[1].state}) :
                   heap'[a].stepIndex = State.stepIndex
        /\ engine'[1].state # Eng.state => calls'.steps = calls.steps + 1
      ]_vars

\* C15 witness: a step of the Runge-Kutta integrator has just been made with
\* two bodies on a spring; the pre-step state, s2, s3, s4 and the committed
\* state are all in the heap.
PreStepStateKeptWitness ==
    /\ Eng.integratorName = "rk4"
    /\ calls.last.op = "step"
    /\ calls.steps >= 2
    /\ Len(State.pointMasses) = 2
    /\ Cardinality(StateObjects(heap)) >= 5

----------------------------------------------------------------------------
(* The Runge-Kutta and the semi-implicit integrator under gravity alone     *)
(* (SpecTwins)                                                              *)

\* The committed state of the first engine (semi) and of the second (rk4).
Twin(k) == heap[engine[k].state]

\* The velocity increments the two integrators add under the acceleration a:
\* vecScale(a, dt), and vecScale of k1 + 2 k2 + 2 k3 + k4 by dt / 6 where all
\* four are a.
IncrementSemi(a, dt) == vecScaleRounded(a, dt)
IncrementRk4(a, dt) == vecScaleRounded(rk4SumRounded(a, a, a, a), Round(NumDiv(dt, Six)))

\* |x - y| <= 8 * 2^(-SignificandBits) * |exact|: the six roundings of the one
\* and the one rounding of the other.
WithinRounding(x, y, exact) ==
    ~NumLess(NumMul(Rat(8, 2^SignificandBits), NumAbs(exact)), NumAbs(NumSub(x, y)))

\* The acceleration of gravity in the scene.
GravityVec == computeDerivative(dynamicsContext(engine[1], heap), Twin(1)).pointAccelerations[1]

\* From the state st the two integrators reach the same state.
SameNextState(st) ==
    pickIntegratorRounded("rk4", dynamicsContext(engine[1], heap), st)
        = pickIntegratorRounded("semi", dynamicsContext(engine[1], heap), st)

====
